---------------------------- MODULE Spec2Model ----------------------------
(***************************************************************************)
(* Ascending-price auction for contiguous time-slot bundles                *)
(* (src/src/auction/ascending.py), with the Market state                   *)
(* (src/src/models/market.py), the per-agent bundle optimiser              *)
(* (src/src/models/agent.py), the competitive-equilibrium checker          *)
(* (src/src/auction/equilibrium.py) and the brute-force welfare baseline   *)
(* (src/src/optimization/integer_program.py).                              *)
(*                                                                         *)
(* Money is an integer number of units.  A scenario fixes what one unit    *)
(* is, so that every reserve price, worth and epsilon of the scenario is   *)
(* a whole number of units (book example 1 with epsilon 0.25 counts        *)
(* quarters of a dollar).  Such values are exactly representable Python    *)
(* floats and float +, - on them is exact, so integer arithmetic is what   *)
(* the code computes.                                                      *)
(***************************************************************************)
EXTENDS Integers, Sequences, FiniteSets, TLC

VARIABLES
    scen,        \* the inputs of the run: agents, slots, epsilon, max_iterations
    heap,        \* the Market objects: id -> [allocations, bid_prices]
    market,      \* run's local `market`: the id of the Market it works on
    pc,          \* position in AscendingAuction.run
    rounds,      \* run's local `rounds`: the trace
    round_num,   \* run's local `round_num`
    iteration,   \* run's local `iteration`
    any_change,  \* run's local `any_change`
    agent_idx,   \* position of the `for agent in market.agents` loop (1-based)
    result       \* the AuctionResult, None until run returns

vars == <<pc, agent_idx, scen, heap, market, rounds, round_num, iteration,
          any_change, result>>

-----------------------------------------------------------------------------
(* Bounds of the generated scenarios *)

MaxSlots == 3
MaxAgents == 2
MaxWorth == 3
MaxIter == 2

\* required_slots and uniform reserve prices of the generated scenarios; their
\* epsilon is the money unit
Lengths == {1, 2}
Reserves == {0, 1}

None == -1

\* The Market passed to run by the caller, and the copy run makes of it
Caller == 1
Copy == 2

-----------------------------------------------------------------------------
(* Python float arithmetic                                                 *)
(*                                                                         *)
(* In a scenario whose money is not exactly representable (book example 2  *)
(* with epsilon 0.1) float + and - round.  There a float x is the integer  *)
(* n * FpK + d, standing for x = n/10 + d * U with U = 2^-56 / 5 and       *)
(* |d| < FpK/2: n counts tenths of a dollar and d is the representation    *)
(* error of x.  The order of the integers is the order of the floats, the  *)
(* integer sum is the exact sum, and Rnd rounds an exact sum to the        *)
(* nearest double (ties to even), as IEEE 754 addition does: x is n * 2^55 *)
(* + d units of U, and in [2^e, 2^(e+1)) the doubles are the multiples of  *)
(* 5 * 2^(e+4) units.  Valid for |x| < 32.                                 *)

FpK == 100000

\* float(0.1) = 0.1 + 2 U
FpTenth == FpK + 2

Pow2Mod5(j) == <<1, 2, 4, 3>>[(j % 4) + 1]

\* 2^55 modulo 5 * 2^k
FpBase(k) == (2 ^ k) * Pow2Mod5(55 - k)

\* e + 4 for the binade [2^e, 2^(e+1)) of the positive value n/10 + d U, n >= 2
FpBand(n, d) ==
    CHOOSE k \in 1..8 :
        /\ 8 * n > 10 * 2 ^ (k - 1) \/ (8 * n = 10 * 2 ^ (k - 1) /\ d >= 0)
        /\ \A j \in (k + 1)..8 :
              ~(8 * n > 10 * 2 ^ (j - 1) \/ (8 * n = 10 * 2 ^ (j - 1) /\ d >= 0))

RndPos(p) ==
    LET n == (p + FpK \div 2) \div FpK
        d == p - n * FpK
    IN  IF n <= 1 THEN p   \* below 0.125 every sum of doubles in range is a double
        ELSE LET k == FpBand(n, d)
                 u == 5 * 2 ^ k
                 r == (n * FpBase(k) + d) % u
                 r2 == (n * FpBase(k + 1) + d) % (2 * u)
             IN  IF r = 0 THEN p
                 ELSE IF 2 * r < u THEN p - r
                 ELSE IF 2 * r > u THEN p + (u - r)
                 ELSE IF r2 = r THEN p - r ELSE p + (u - r)

\* the float nearest to the exact value p
Rnd(p) == IF ~scen.fp THEN p ELSE IF p >= 0 THEN RndPos(p) ELSE 0 - RndPos(0 - p)

\* Python's a + b and a - b on floats
fadd(a, b) == Rnd(a + b)
fsub(a, b) == Rnd(a - b)

RECURSIVE fsum_seq(_, _, _)
fsum_seq(xs, i, acc) ==
    IF i > Len(xs) THEN acc ELSE fsum_seq(xs, i + 1, fadd(acc, xs[i]))

\* Python's sum(...) over the values xs in the order given, starting from 0
fsum(xs) == fsum_seq(xs, 1, 0)

-----------------------------------------------------------------------------
(* Slot *)

Slot(id, q, t, c) ==
    [slot_id |-> id, reserve_price |-> q, time_index |-> t, cpu_id |-> c]

get_time_index(s) == IF s.time_index = None THEN s.slot_id ELSE s.time_index

RECURSIVE create_slots_cpu(_, _, _, _, _)
create_slots_cpu(cpu, t, num_slots, reserve_price, num_cpus) ==
    IF t >= num_slots THEN <<>>
    ELSE <<IF num_cpus = 1
           THEN Slot(t + cpu * num_slots, reserve_price, None, 0)
           ELSE Slot(t + cpu * num_slots, reserve_price, t, cpu)>>
         \o create_slots_cpu(cpu, t + 1, num_slots, reserve_price, num_cpus)

RECURSIVE create_slots_from(_, _, _, _)
create_slots_from(cpu, num_slots, reserve_price, num_cpus) ==
    IF cpu >= num_cpus THEN <<>>
    ELSE create_slots_cpu(cpu, 0, num_slots, reserve_price, num_cpus)
         \o create_slots_from(cpu + 1, num_slots, reserve_price, num_cpus)

create_slots(num_slots, reserve_price, num_cpus) ==
    create_slots_from(0, num_slots, reserve_price, num_cpus)

\* single-CPU slots with individual reserve prices
create_slots_with_prices(reserve_prices) ==
    [t \in 1..Len(reserve_prices) |-> Slot(t - 1, reserve_prices[t], None, 0)]

(* Agent *)

Agent(id, d, len, w) ==
    [agent_id |-> id, deadline_slot_id |-> d, required_slots |-> len, worth |-> w]

-----------------------------------------------------------------------------
(* Sequences and sets *)

Range(f) == {f[i] : i \in DOMAIN f}

RECURSIVE SetToSeq(_)
\* a set of integers as the ascending sequence (Python's sorted([...]))
SetToSeq(S) ==
    IF S = {} THEN <<>>
    ELSE LET x == CHOOSE y \in S : \A z \in S : y <= z
         IN <<x>> \o SetToSeq(S \ {x})

\* all orders in which the elements of S can be visited
Orders(S) ==
    {o \in [1..Cardinality(S) -> S] : \A i, j \in DOMAIN o : i # j => o[i] # o[j]}

SlotIds == {scen.slots[i].slot_id : i \in DOMAIN scen.slots}
AgentIds == {scen.agents[i].agent_id : i \in DOMAIN scen.agents}
SlotById(id) == scen.slots[CHOOSE i \in DOMAIN scen.slots : scen.slots[i].slot_id = id]

-----------------------------------------------------------------------------
(* Agent: valuation, surplus and the bundle optimiser.  A bundle is the    *)
(* set of the slot_ids of its slots (Slot.__eq__ and __hash__ use slot_id  *)
(* alone).                                                                 *)

\* time indices of the slots of bundle S on CPU c that lie before the deadline
TimesOn(agent, S, c) ==
    {get_time_index(SlotById(id)) :
        id \in {x \in S : /\ SlotById(x).cpu_id = c
                          /\ get_time_index(SlotById(x)) < agent.deadline_slot_id}}

\* sorted distinct times hold times[i + length - 1] - times[i] = length - 1
\* exactly when t, t+1, ..., t+length-1 are all among them
has_consecutive_run(agent, allocated_slots, length) ==
    \E c \in {SlotById(id).cpu_id : id \in allocated_slots} :
        LET times == TimesOn(agent, allocated_slots, c)
        IN  /\ Cardinality(times) >= length
            /\ \E t \in times : \A k \in 0..(length - 1) : (t + k) \in times

valuation(agent, allocated_slots) ==
    IF allocated_slots = {} THEN 0
    ELSE IF has_consecutive_run(agent, allocated_slots, agent.required_slots)
         THEN agent.worth
         ELSE 0

\* value - sum(prices.get(slot_id) for slot in allocated_slots)
surplus(agent, allocated_slots, prices) ==
    LET ids == SetToSeq(allocated_slots)
    IN  fsub(valuation(agent, allocated_slots),
             fsum([i \in DOMAIN ids |-> prices[ids[i]]]))

\* the slots strictly before the last slot before the deadline
get_valid_slots_early(agent, all_slots) ==
    SelectSeq(all_slots, LAMBDA s : get_time_index(s) < agent.deadline_slot_id - 1)

get_valid_slots(agent, all_slots) ==
    SelectSeq(all_slots, LAMBDA s : get_time_index(s) < agent.deadline_slot_id)

RECURSIVE KeysInOrder(_, _)
\* the keys of by_cpu in insertion order: CPUs in order of first appearance
KeysInOrder(slots, seen) ==
    IF slots = <<>> THEN <<>>
    ELSE IF Head(slots).cpu_id \in seen THEN KeysInOrder(Tail(slots), seen)
         ELSE <<Head(slots).cpu_id>>
              \o KeysInOrder(Tail(slots), seen \cup {Head(slots).cpu_id})

RECURSIVE SortByTime(_)
\* sorted(group, key=get_time_index): stable
SortByTime(group) ==
    IF group = <<>> THEN <<>>
    ELSE LET i == CHOOSE j \in DOMAIN group :
                     /\ \A k \in DOMAIN group :
                           get_time_index(group[j]) <= get_time_index(group[k])
                     /\ \A k \in 1..(j - 1) :
                           get_time_index(group[k]) > get_time_index(group[j])
         IN  <<group[i]>>
             \o SortByTime(SubSeq(group, 1, i - 1) \o SubSeq(group, i + 1, Len(group)))

\* range(len(group) - required_slots) for range(len(group) - required_slots + 1):
\* the last window of the group is never tried
WindowsOfSkipLast(agent, group) ==
    LET n == agent.required_slots
        starts == SelectSeq([i \in 1..Len(group) |-> i],
                     LAMBDA i : /\ i + n <= Len(group)
                                /\ get_time_index(group[i + n - 1])
                                     - get_time_index(group[i]) = n - 1)
    IN  [j \in DOMAIN starts |->
            {group[k].slot_id : k \in starts[j]..(starts[j] + n - 1)}]

\* the windows find_best_bundle tries on one CPU group, in the order it tries them
WindowsOf(agent, group) ==
    LET n == agent.required_slots
        starts == SelectSeq([i \in 1..Len(group) |-> i],
                     LAMBDA i : /\ i + n - 1 <= Len(group)
                                /\ get_time_index(group[i + n - 1])
                                     - get_time_index(group[i]) = n - 1)
    IN  [j \in DOMAIN starts |->
            {group[k].slot_id : k \in starts[j]..(starts[j] + n - 1)}]

RECURSIVE WindowsFrom(_, _, _)
WindowsFrom(agent, valid_slots, cpus) ==
    IF cpus = <<>> THEN <<>>
    ELSE WindowsOf(agent,
            SortByTime(SelectSeq(valid_slots, LAMBDA s : s.cpu_id = Head(cpus))))
         \o WindowsFrom(agent, valid_slots, Tail(cpus))

\* every window find_best_bundle evaluates, in scan order
Candidates(agent, all_slots) ==
    LET valid_slots == get_valid_slots(agent, all_slots)
    IN  WindowsFrom(agent, valid_slots, KeysInOrder(valid_slots, {}))

RECURSIVE Scan(_, _, _, _, _)
\* the loop over the windows: `if surplus > best_surplus`
Scan(agent, cands, prices, i, best) ==
    IF i > Len(cands) THEN best
    ELSE LET s == surplus(agent, cands[i], prices)
         IN  Scan(agent, cands, prices, i + 1,
                  IF s > best[2] THEN <<cands[i], s>> ELSE best)

\* the optimiser that also takes a window of surplus exactly 0
find_best_bundle_accepting_zero(agent, all_slots, prices, current_allocation) ==
    LET best == Scan(agent, Candidates(agent, all_slots), prices, 1, <<{}, -1>>)
    IN  IF best[2] < 0 THEN <<{}, 0>> ELSE best

\* the best window extended by the slots the agent holds, as a bundle
\* S >= F_i would be
find_best_bundle_keeping_current(agent, all_slots, prices, current_allocation) ==
    LET best == Scan(agent, Candidates(agent, all_slots), prices, 1, <<{}, 0>>)
    IN  IF best[1] = {} THEN <<{}, 0>>
        ELSE <<best[1] \cup current_allocation, best[2]>>

\* the best window, without the empty bundle at surplus 0 to beat
find_best_bundle_no_floor(agent, all_slots, prices, current_allocation) ==
    LET cands == Candidates(agent, all_slots)
    IN  IF cands = <<>> THEN <<{}, 0>>
        ELSE Scan(agent, cands, prices, 2,
                  <<cands[1], surplus(agent, cands[1], prices)>>)

\* <<best_bundle, best_surplus>>
find_best_bundle(agent, all_slots, prices, current_allocation) ==
    LET best == Scan(agent, Candidates(agent, all_slots), prices, 1, <<{}, 0>>)
    IN  IF best[2] < 0 THEN <<{}, 0>> ELSE best

-----------------------------------------------------------------------------
(* Market: a record [allocations, bid_prices]; agents and slots are those  *)
(* of the scenario, shared by every Market of it.                          *)

\* bid prices left at 0 instead of the reserve prices
NewMarketZeroPrices ==
    [allocations |-> [a \in AgentIds |-> {}],
     bid_prices |-> [id \in SlotIds |-> 0]]

\* Market.__post_init__: empty allocations, bid prices = reserve prices
NewMarket ==
    [allocations |-> [a \in AgentIds |-> {}],
     bid_prices |-> [id \in SlotIds |-> SlotById(id).reserve_price]]

get_allocation(mk, agent) == mk.allocations[agent.agent_id]

\* the setter that adds the slots to the bundle the agent has
set_allocation_adding(mk, agent, slots) ==
    [mk EXCEPT !.allocations[agent.agent_id] = @ \cup slots]

set_allocation(mk, agent, slots) ==
    [mk EXCEPT !.allocations[agent.agent_id] = slots]

get_unallocated_slots(mk) ==
    SlotIds \ UNION {mk.allocations[a] : a \in AgentIds}

\* the first agent, in list order, that holds the slot (its agent_id, which
\* is what Agent.__eq__ compares); None if there is none
get_slot_owner(mk, slot_id) ==
    IF \E i \in DOMAIN scen.agents : slot_id \in mk.allocations[scen.agents[i].agent_id]
    THEN scen.agents[CHOOSE i \in DOMAIN scen.agents :
            /\ slot_id \in mk.allocations[scen.agents[i].agent_id]
            /\ \A j \in 1..(i - 1) :
                  slot_id \notin mk.allocations[scen.agents[j].agent_id]].agent_id
    ELSE None

\* the ask prices without the increment: every slot is offered at its bid price
compute_ask_prices_no_increment(mk, agent, epsilon) ==
    [id \in SlotIds |-> mk.bid_prices[id]]

\* every slot asks its bid price plus epsilon, the bidder's own slots too
compute_ask_prices_all_raised(mk, agent, epsilon) ==
    [id \in SlotIds |-> fadd(mk.bid_prices[id], epsilon)]

\* the test `slot in current_slots` inverted
compute_ask_prices_held_raised(mk, agent, epsilon) ==
    [id \in SlotIds |->
        IF id \notin get_allocation(mk, agent)
        THEN mk.bid_prices[id]
        ELSE fadd(mk.bid_prices[id], epsilon)]

compute_ask_prices(mk, agent, epsilon) ==
    [id \in SlotIds |->
        IF id \in get_allocation(mk, agent)
        THEN mk.bid_prices[id]
        ELSE fadd(mk.bid_prices[id], epsilon)]

\* the valuations net of the reserve prices of the unallocated slots
compute_solution_value_net_of_reserve(mk) ==
    LET un == SetToSeq(get_unallocated_slots(mk))
        reserve_value == fsum([i \in DOMAIN un |-> SlotById(un[i]).reserve_price])
        agent_value ==
            fsum([i \in DOMAIN scen.agents |->
                    valuation(scen.agents[i], mk.allocations[scen.agents[i].agent_id])])
    IN  fsub(agent_value, reserve_value)

\* the sum with the reserve prices of the unallocated slots left out
compute_solution_value_no_reserve(mk) ==
    fsum([i \in DOMAIN scen.agents |->
            valuation(scen.agents[i], mk.allocations[scen.agents[i].agent_id])])

\* V(F) = sum of reserve prices of unallocated slots + sum of valuations
compute_solution_value(mk) ==
    LET un == SetToSeq(get_unallocated_slots(mk))
        reserve_value == fsum([i \in DOMAIN un |-> SlotById(un[i]).reserve_price])
        agent_value ==
            fsum([i \in DOMAIN scen.agents |->
                    valuation(scen.agents[i], mk.allocations[scen.agents[i].agent_id])])
    IN  fadd(reserve_value, agent_value)

\* run calls market.compute_welfare(); Market defines the welfare V(F) under
\* the name compute_solution_value
compute_welfare(mk) == compute_solution_value(mk)

\* the copy that starts from the reserve prices with nothing allocated
copy_reset(h, id) == <<[h EXCEPT ![Copy] = NewMarket], Copy>>

\* market.copy() returning the Market itself
copy_alias(h, id) == <<h, id>>

\* market.copy(): a new Market with deep copies of both maps; <<heap, new id>>
copy(h, id) == <<[h EXCEPT ![Copy] = h[id]], Copy>>

-----------------------------------------------------------------------------
(* Scenarios *)

DefaultMaxIterations == 10000

Scenario(name, agents, slots, epsilon, max_iterations, fp) ==
    [name |-> name, agents |-> agents, slots |-> slots, epsilon |-> epsilon,
     max_iterations |-> max_iterations, fp |-> fp]

\* deadlines of the generated agents: the last slot or the last two are usable
Deadlines(num_slots) ==
    {d \in 1..MaxSlots : d >= num_slots - 1 /\ d <= (IF num_slots = 0 THEN 1 ELSE num_slots)}

\* the agents a generated scenario draws from: ids are list positions.  Every
\* ask price is at least epsilon = 1, so an agent of worth below 2 never bids;
\* the zero_worth scenarios have one.  Worths are the two largest; in lists
\* of more than two agents every agent has the largest.
AgentChoices(k, num_slots) ==
    [1..k -> [deadline_slot_id : Deadlines(num_slots),
              required_slots : Lengths,
              worth : IF k <= 2 THEN (MaxWorth - 1)..MaxWorth ELSE {MaxWorth}]]

AgentList(choice) ==
    [i \in DOMAIN choice |->
        Agent(i, choice[i].deadline_slot_id, choice[i].required_slots, choice[i].worth)]

\* every small single-CPU market of n slots with a uniform reserve price, cut
\* off after one pass or after MaxIter passes
GeneratedWith(n) ==
    {Scenario("generated", AgentList(ch), create_slots(n, q, 1), 1, mi, FALSE) :
        ch \in UNION {AgentChoices(k, n) : k \in 0..MaxAgents},
        q \in Reserves, mi \in {1, MaxIter}}

\* create_book_example_1 in units of $0.25, epsilon 0.25, default cap
BookExample1 ==
    Scenario("book_example_1",
             <<Agent(1, 4, 2, 40), Agent(2, 3, 2, 64), Agent(3, 3, 1, 24), Agent(4, 8, 4, 58)>>,
             create_slots(8, 12, 1), 1, DefaultMaxIterations, FALSE)

\* create_book_example_2 in units of $0.25, epsilon 0.25, 0.5 and 1.0
BookExample2(epsilon) ==
    Scenario("book_example_2", <<Agent(1, 2, 2, 40), Agent(2, 2, 1, 24)>>,
             create_slots(2, 12, 1), epsilon, DefaultMaxIterations, FALSE)

\* create_book_example_2 with epsilon 0.1, in floats
BookExample2Tenth ==
    Scenario("book_example_2", <<Agent(1, 2, 2, 100 * FpK), Agent(2, 2, 1, 60 * FpK)>>,
             create_slots(2, 30 * FpK, 1), FpTenth, DefaultMaxIterations, TRUE)

\* create_book_example_3 in units of $0.25, epsilon 0.25
BookExample3 ==
    Scenario("book_example_3", <<Agent(1, 1, 1, 12), Agent(2, 2, 2, 44)>>,
             create_slots_with_prices(<<4, 36>>), 1, DefaultMaxIterations, FALSE)

\* create_book_example_2_two_cpus in units of $0.25, epsilon 0.25
BookExample2TwoCpus ==
    Scenario("book_example_2_two_cpus", <<Agent(1, 2, 2, 40), Agent(2, 2, 1, 24)>>,
             create_slots(2, 12, 2), 1, DefaultMaxIterations, FALSE)

\* create_book_example_2_two_cpus with epsilon 0.1, in floats
BookExample2TwoCpusTenth ==
    Scenario("book_example_2_two_cpus",
             <<Agent(1, 2, 2, 100 * FpK), Agent(2, 2, 1, 60 * FpK)>>,
             create_slots(2, 30 * FpK, 2), FpTenth, DefaultMaxIterations, TRUE)

\* create_book_example_1 in units of $0.25, epsilon 1.0
BookExample1Eps1 ==
    Scenario("book_example_1",
             <<Agent(1, 4, 2, 40), Agent(2, 3, 2, 64), Agent(3, 3, 1, 24), Agent(4, 8, 4, 58)>>,
             create_slots(8, 12, 1), 4, DefaultMaxIterations, FALSE)

\* test_simple_case_converges in units of $0.25: two single-slot agents of
\* worth 5 and 4 on two slots at reserve 1, epsilon 0.25
SimpleCase ==
    Scenario("simple_case", <<Agent(1, 2, 1, 20), Agent(2, 2, 1, 16)>>,
             create_slots(2, 4, 1), 1, DefaultMaxIterations, FALSE)

\* two single-slot agents of worth 10 and 6 on one slot at reserve 3, in
\* floats, with an epsilon of about 1e-17 (4 error units): 3.0 + epsilon
\* rounds to 3.0
TinyEpsilon ==
    Scenario("tiny_epsilon", <<Agent(1, 1, 1, 100 * FpK), Agent(2, 1, 1, 60 * FpK)>>,
             create_slots(1, 30 * FpK, 1), 4, DefaultMaxIterations, TRUE)

\* an agent of worth 0 next to a bidder, and a market cut off after one pass
ZeroWorth(max_iterations) ==
    Scenario("zero_worth", <<Agent(1, 2, 1, 0), Agent(2, 2, 2, 3)>>,
             create_slots(2, 1, 1), 1, max_iterations, FALSE)

\* two agents of length 2 on four free slots, deadlines 4 and 3: the first
\* takes slots 0-1, loses slot 1 to the second and moves to slots 2-3
WindowSwitch ==
    Scenario("window_switch", <<Agent(1, 4, 2, 4), Agent(2, 3, 2, 4)>>,
             create_slots(4, 0, 1), 1, DefaultMaxIterations, FALSE)

BookScenarios ==
    {BookExample1, BookExample2(1), BookExample2(2), BookExample2(4),
     BookExample2Tenth, BookExample3, BookExample2TwoCpus, BookExample2TwoCpusTenth,
     ZeroWorth(1), ZeroWorth(DefaultMaxIterations)}

-----------------------------------------------------------------------------
(* AscendingAuction.run *)

\* the snapshot that lists the agents holding a slot only
AuctionRoundHoldersOnly(num, agent, new_slots, mk) ==
    [round_num |-> num,
     bidder |-> agent.agent_id,
     slots_bid_on |-> new_slots,
     allocations |-> [a \in {x \in AgentIds : mk.allocations[x] # {}} |->
                        SetToSeq(mk.allocations[a])],
     bid_prices |-> [i \in DOMAIN scen.slots |-> mk.bid_prices[scen.slots[i].slot_id]]]

\* the snapshot taken after the price increments of the round
AuctionRoundAfterBids(num, agent, new_slots, mk) ==
    [round_num |-> num,
     bidder |-> agent.agent_id,
     slots_bid_on |-> new_slots,
     allocations |-> [a \in AgentIds |-> SetToSeq(mk.allocations[a])],
     bid_prices |-> [i \in DOMAIN scen.slots |->
                       IF scen.slots[i].slot_id \in new_slots
                       THEN fadd(mk.bid_prices[scen.slots[i].slot_id], scen.epsilon)
                       ELSE mk.bid_prices[scen.slots[i].slot_id]]]

AuctionRound(num, agent, new_slots, mk) ==
    [round_num |-> num,
     bidder |-> agent.agent_id,
     slots_bid_on |-> new_slots,
     allocations |-> [a \in AgentIds |-> SetToSeq(mk.allocations[a])],
     bid_prices |-> [i \in DOMAIN scen.slots |-> mk.bid_prices[scen.slots[i].slot_id]]]

\* the body without the eviction of the current owner
BidOnSlotNoEvict(mk, agent, slot_id, epsilon) ==
    [mk EXCEPT !.bid_prices[slot_id] = fadd(mk.bid_prices[slot_id], epsilon)]

\* the body with the price left where it was
BidOnSlotNoRaise(mk, agent, slot_id, epsilon) ==
    LET current_owner == get_slot_owner(mk, slot_id)
    IN  IF current_owner # None /\ current_owner # agent.agent_id
        THEN [mk EXCEPT !.allocations[current_owner] = @ \ {slot_id}]
        ELSE mk

\* the body with the bid lowered instead of raised
BidOnSlotLower(mk, agent, slot_id, epsilon) ==
    LET lowered == [mk EXCEPT !.bid_prices[slot_id] = fsub(mk.bid_prices[slot_id], epsilon)]
        current_owner == get_slot_owner(lowered, slot_id)
    IN  IF current_owner # None /\ current_owner # agent.agent_id
        THEN [lowered EXCEPT !.allocations[current_owner] = @ \ {slot_id}]
        ELSE lowered

\* the body with the previous owner's bundle read from the market as it was
\* before the round: of two slots taken from one owner, the one visited last
\* is the only one removed
BidOnSlotStale(mk, agent, slot_id, epsilon) ==
    LET raised == [mk EXCEPT !.bid_prices[slot_id] = fadd(mk.bid_prices[slot_id], epsilon)]
        current_owner == get_slot_owner(raised, slot_id)
    IN  IF current_owner # None /\ current_owner # agent.agent_id
        THEN [raised EXCEPT !.allocations[current_owner] =
                                heap[market].allocations[current_owner] \ {slot_id}]
        ELSE raised

\* the body of `for slot in new_slots` for one slot
BidOnSlot(mk, agent, slot_id, epsilon) ==
    LET raised == [mk EXCEPT !.bid_prices[slot_id] = fadd(mk.bid_prices[slot_id], epsilon)]
        current_owner == get_slot_owner(raised, slot_id)
    IN  IF current_owner # None /\ current_owner # agent.agent_id
        THEN [raised EXCEPT !.allocations[current_owner] = @ \ {slot_id}]
        ELSE raised

RECURSIVE BidOnSlots(_, _, _, _, _)
\* `for slot in new_slots`, visiting the slots in the order given
BidOnSlots(mk, agent, order, i, epsilon) ==
    IF i > Len(order) THEN mk
    ELSE BidOnSlots(BidOnSlot(mk, agent, order[i], epsilon), agent, order, i + 1, epsilon)

Init ==
    /\ \/ scen \in BookScenarios
       \/ scen = WindowSwitch
       \/ \E n \in 0..MaxSlots : scen \in GeneratedWith(n)
    /\ heap = [id \in {Caller, Copy} |-> IF id = Caller THEN NewMarket ELSE None]
    /\ market = Caller
    /\ pc = "start"
    /\ rounds = <<>>
    /\ round_num = 0
    /\ iteration = 0
    /\ any_change = FALSE
    /\ agent_idx = 0
    /\ result = None

\* market = market.copy(); rounds = []; round_num = 0; iteration = 0
Start ==
    /\ pc = "start"
    /\ pc' = "while"
    /\ LET c == copy(heap, market)
       IN  /\ heap' = c[1]
           /\ market' = c[2]
    /\ rounds' = <<>>
    /\ round_num' = 0
    /\ iteration' = 0
    /\ UNCHANGED <<scen, any_change, agent_idx, result>>

\* while iteration < self.max_iterations: any_change = False
While ==
    /\ pc = "while"
    /\ IF iteration < scen.max_iterations
       THEN /\ any_change' = FALSE
            /\ agent_idx' = 1
            /\ pc' = "for"
       ELSE /\ pc' = "exit"
            /\ UNCHANGED <<any_change, agent_idx>>
    /\ UNCHANGED <<scen, heap, market, rounds, round_num, iteration, result>>

\* one round: the body of `for agent in market.agents`
Round ==
    /\ pc = "for"
    /\ agent_idx <= Len(scen.agents)
    /\ LET agent == scen.agents[agent_idx]
           mk == heap[market]
           ask_prices == compute_ask_prices(mk, agent, scen.epsilon)
           current_allocation == get_allocation(mk, agent)
           best_bundle == find_best_bundle(agent, scen.slots, ask_prices,
                                           current_allocation)[1]
           new_slots == best_bundle \ current_allocation
       IN  \E order \in Orders(new_slots) :
              LET bid == BidOnSlots(mk, agent, order, 1, scen.epsilon)
                  after == IF best_bundle # current_allocation
                           THEN set_allocation(bid, agent, best_bundle)
                           ELSE bid
              IN  /\ heap' = [heap EXCEPT ![market] = after]
                  /\ rounds' = Append(rounds,
                                  AuctionRound(round_num + 1, agent, new_slots, mk))
                  /\ any_change' = (\/ any_change
                                    \/ new_slots # {}
                                    \/ best_bundle # current_allocation)
    /\ round_num' = round_num + 1
    /\ agent_idx' = agent_idx + 1
    /\ UNCHANGED <<scen, market, pc, iteration, result>>

\* after the for loop: iteration += 1; if not any_change: break
EndPass ==
    /\ pc = "for"
    /\ agent_idx > Len(scen.agents)
    /\ iteration' = iteration + 1
    /\ pc' = IF ~any_change THEN "exit" ELSE "while"
    /\ UNCHANGED <<scen, heap, market, rounds, round_num, any_change, agent_idx, result>>

\* the flag with the comparison turned round
ConvergedInverted(iterations, max_iterations) == iterations >= max_iterations

\* the flag set on every return
ConvergedAlways(iterations, max_iterations) == TRUE

\* the flag with <= for <
ConvergedOffByOne(iterations, max_iterations) == iterations <= max_iterations

\* converged = iteration < self.max_iterations
Converged(iterations, max_iterations) == iterations < max_iterations

\* return AuctionResult(...)
Return ==
    /\ pc = "exit"
    /\ result' = [market |-> market,
                  rounds |-> rounds,
                  converged |-> Converged(iteration, scen.max_iterations),
                  iterations |-> iteration,
                  final_welfare |-> compute_welfare(heap[market])]
    /\ pc' = "done"
    /\ UNCHANGED <<scen, heap, market, rounds, round_num, iteration, any_change, agent_idx>>

Next == Start \/ While \/ Round \/ EndPass \/ Return

Spec == Init /\ [][Next]_vars

-----------------------------------------------------------------------------
(* The pass loop of AscendingAuction.run with an iteration cap that does   *)
(* not bind.  The trace and the counters are only written by the loop: no  *)
(* test or update of it reads them apart from the cap test, so the loop is *)
(* followed here without them.                                             *)

\* every scenario under a cap that does not bind
LoopScenarios ==
    {[s EXCEPT !.max_iterations = DefaultMaxIterations] :
        s \in BookScenarios \cup UNION {GeneratedWith(n) : n \in 0..MaxSlots}}
        \cup {BookExample1Eps1, SimpleCase, TinyEpsilon}

\* the state in which run enters the loop: it works on the copy of a fresh
\* Market
LoopInit ==
    /\ scen \in LoopScenarios
    /\ heap = copy([id \in {Caller, Copy} |-> IF id = Caller THEN NewMarket ELSE None],
                   Caller)[1]
    /\ market = Copy
    /\ pc = "while"
    /\ rounds = <<>>
    /\ round_num = 0
    /\ iteration = 0
    /\ any_change = FALSE
    /\ agent_idx = 0
    /\ result = None

\* while iteration < self.max_iterations, the test passing: any_change = False
LoopWhile ==
    /\ pc = "while"
    /\ any_change' = FALSE
    /\ agent_idx' = 1
    /\ pc' = "for"
    /\ UNCHANGED <<scen, heap, market, rounds, round_num, iteration, result>>

\* one round: the body of `for agent in market.agents`
LoopRound ==
    /\ pc = "for"
    /\ agent_idx <= Len(scen.agents)
    /\ LET agent == scen.agents[agent_idx]
           mk == heap[market]
           ask_prices == compute_ask_prices(mk, agent, scen.epsilon)
           current_allocation == get_allocation(mk, agent)
           best_bundle == find_best_bundle(agent, scen.slots, ask_prices,
                                           current_allocation)[1]
           new_slots == best_bundle \ current_allocation
       IN  \E order \in Orders(new_slots) :
              LET bid == BidOnSlots(mk, agent, order, 1, scen.epsilon)
                  after == IF best_bundle # current_allocation
                           THEN set_allocation(bid, agent, best_bundle)
                           ELSE bid
              IN  /\ heap' = [heap EXCEPT ![market] = after]
                  /\ any_change' = (\/ any_change
                                    \/ new_slots # {}
                                    \/ best_bundle # current_allocation)
    /\ agent_idx' = agent_idx + 1
    /\ UNCHANGED <<scen, market, pc, rounds, round_num, iteration, result>>

\* after the for loop: if not any_change: break
LoopEndPass ==
    /\ pc = "for"
    /\ agent_idx > Len(scen.agents)
    /\ pc' = IF ~any_change THEN "exit" ELSE "while"
    /\ UNCHANGED <<scen, heap, market, rounds, round_num, iteration, any_change,
                   agent_idx, result>>

LoopNext == LoopWhile \/ LoopRound \/ LoopEndPass

\* the position in the loop
position == <<pc, agent_idx>>

\* a move of the position from inside the loop.  Every step of LoopNext is
\* one, and inside the loop (pc "while" or "for") a step of LoopNext is
\* always possible.
Advance ==
    /\ pc \in {"while", "for"}
    /\ pc' \in {"while", "for", "exit"}
    /\ agent_idx' \in 0..(Len(scen.agents) + 1)

\* run is one sequential call: inside the loop its next statement is always
\* executed
LoopSpec == LoopInit /\ [][LoopNext]_vars /\ WF_position(Advance)

-----------------------------------------------------------------------------
(* EquilibriumChecker *)

Abs(x) == IF x < 0 THEN -x ELSE x

\* EquilibriumChecker.__init__'s default tolerance 1e-6.  It is smaller than
\* one money unit and larger than any rounding error of the run: between
\* integer amounts it separates as 0 does, between packed floats as half a
\* tenth does.
tolerance == IF scen.fp THEN FpK \div 2 ELSE 0

\* surplus_ok for an agent content with any bundle it holds
surplus_ok_holders_content(mk) ==
    \A i \in DOMAIN scen.agents :
        LET agent == scen.agents[i]
            current_surplus == surplus(agent, get_allocation(mk, agent), mk.bid_prices)
            best == find_best_bundle(agent, scen.slots, mk.bid_prices, {})
        IN  get_allocation(mk, agent) = {} => ~(best[2] > current_surplus + tolerance)

\* condition 1: no agent's best bundle at the bid prices beats its own bundle
surplus_ok(mk) ==
    \A i \in DOMAIN scen.agents :
        LET agent == scen.agents[i]
            current_surplus == surplus(agent, get_allocation(mk, agent), mk.bid_prices)
            best == find_best_bundle(agent, scen.slots, mk.bid_prices, {})
        IN  ~(best[2] > current_surplus + tolerance)

\* unallocated_ok without abs(): a price under the reserve passes
unallocated_ok_above_only(mk) ==
    \A id \in get_unallocated_slots(mk) :
        ~(fsub(mk.bid_prices[id], SlotById(id).reserve_price) > tolerance)

\* condition 2: every unallocated slot is priced at its reserve
unallocated_ok(mk) ==
    \A id \in get_unallocated_slots(mk) :
        ~(Abs(fsub(mk.bid_prices[id], SlotById(id).reserve_price)) > tolerance)

\* allocated_ok over all slots, the unallocated ones included
allocated_ok_all_slots(mk) ==
    \A id \in SlotIds :
        ~(mk.bid_prices[id] < SlotById(id).reserve_price - tolerance)

\* condition 3: every allocated slot is priced at or above its reserve
allocated_ok(mk) ==
    \A id \in SlotIds \ get_unallocated_slots(mk) :
        ~(mk.bid_prices[id] < SlotById(id).reserve_price - tolerance)

\* is_equilibrium without condition 2
check_without_unallocated(mk) ==
    [is_equilibrium |-> surplus_ok(mk) /\ allocated_ok(mk),
     surplus_maximization_satisfied |-> surplus_ok(mk),
     unallocated_price_satisfied |-> unallocated_ok(mk),
     allocated_price_satisfied |-> allocated_ok(mk)]

\* agent_surpluses and best_surpluses of the result, by agent_id
agent_surpluses(mk) ==
    [a \in AgentIds |->
        LET agent == scen.agents[CHOOSE i \in DOMAIN scen.agents :
                                     scen.agents[i].agent_id = a]
        IN  surplus(agent, get_allocation(mk, agent), mk.bid_prices)]

best_surpluses(mk) ==
    [a \in AgentIds |->
        LET agent == scen.agents[CHOOSE i \in DOMAIN scen.agents :
                                     scen.agents[i].agent_id = a]
        IN  find_best_bundle(agent, scen.slots, mk.bid_prices, {})[2]]

check(mk) ==
    LET surplus_max_ok == surplus_ok(mk)
        unalloc_ok == unallocated_ok(mk)
        alloc_ok == allocated_ok(mk)
    IN  [is_equilibrium |-> surplus_max_ok /\ unalloc_ok /\ alloc_ok,
         surplus_maximization_satisfied |-> surplus_max_ok,
         unallocated_price_satisfied |-> unalloc_ok,
         allocated_price_satisfied |-> alloc_ok,
         agent_surpluses |-> agent_surpluses(mk),
         best_surpluses |-> best_surpluses(mk)]

\* a checker that settles what it finds: it writes the reserve price on every
\* unallocated slot; <<result, heap after>>
check_call_settling(h, id) ==
    <<check(h[id]),
      [h EXCEPT ![id].bid_prices =
          [x \in SlotIds |-> IF x \in get_unallocated_slots(h[id])
                             THEN SlotById(x).reserve_price
                             ELSE h[id].bid_prices[x]]]>>

\* EquilibriumChecker(market).check() as a call on the heap: the method
\* assigns to its locals only; <<result, heap after>>
check_call(h, id) == <<check(h[id]), h>>

\* EquilibriumChecker(market, tolerance).check() with condition 1 compared
\* without the tolerance
check_with_exact_surplus(mk, tol) ==
    LET c1 == \A i \in DOMAIN scen.agents :
                 LET agent == scen.agents[i]
                     current_surplus == surplus(agent, get_allocation(mk, agent), mk.bid_prices)
                     best == find_best_bundle(agent, scen.slots, mk.bid_prices, {})
                 IN  ~(best[2] > current_surplus)
        c2 == \A id \in get_unallocated_slots(mk) :
                 ~(Abs(fsub(mk.bid_prices[id], SlotById(id).reserve_price)) > tol)
        c3 == \A id \in SlotIds \ get_unallocated_slots(mk) :
                 ~(mk.bid_prices[id] < SlotById(id).reserve_price - tol)
    IN  [is_equilibrium |-> c1 /\ c2 /\ c3,
         surplus_maximization_satisfied |-> c1,
         unallocated_price_satisfied |-> c2,
         allocated_price_satisfied |-> c3]

\* EquilibriumChecker(market, tolerance).check() for a tolerance given by the
\* caller, in money units
check_with(mk, tol) ==
    LET c1 == \A i \in DOMAIN scen.agents :
                 LET agent == scen.agents[i]
                     current_surplus == surplus(agent, get_allocation(mk, agent), mk.bid_prices)
                     best == find_best_bundle(agent, scen.slots, mk.bid_prices, {})
                 IN  ~(best[2] > current_surplus + tol)
        c2 == \A id \in get_unallocated_slots(mk) :
                 ~(Abs(fsub(mk.bid_prices[id], SlotById(id).reserve_price)) > tol)
        c3 == \A id \in SlotIds \ get_unallocated_slots(mk) :
                 ~(mk.bid_prices[id] < SlotById(id).reserve_price - tol)
    IN  [is_equilibrium |-> c1 /\ c2 /\ c3,
         surplus_maximization_satisfied |-> c1,
         unallocated_price_satisfied |-> c2,
         allocated_price_satisfied |-> c3]

-----------------------------------------------------------------------------
(* IntegerProgramSolver *)

RECURSIVE Flatten(_)
Flatten(xss) == IF xss = <<>> THEN <<>> ELSE Head(xss) \o Flatten(Tail(xss))

RECURSIVE combinations(_, _)
\* itertools.combinations(xs, r): the r-subsequences of xs in index order
combinations(xs, r) ==
    IF r = 0 THEN << <<>> >>
    ELSE IF Len(xs) < r THEN <<>>
    ELSE LET with == combinations(Tail(xs), r - 1)
         IN  [i \in DOMAIN with |-> <<Head(xs)>> \o with[i]]
                 \o combinations(Tail(xs), r)

RECURSIVE product(_)
\* itertools.product of range(lens[1]), ..., range(lens[n]), indices from 1
product(lens) ==
    IF lens = <<>> THEN << <<>> >>
    ELSE LET rest == product(Tail(lens))
         IN  Flatten([i \in 1..Head(lens) |->
                        [j \in DOMAIN rest |-> <<i>> \o rest[j]]])

\* only the first bundle of positive valuation, then the empty bundle
generate_bundles_first_only(agent) ==
    LET valid_slots == get_valid_slots(agent, scen.slots)
        combos == IF Len(valid_slots) >= agent.required_slots
                  THEN combinations(valid_slots, agent.required_slots)
                  ELSE <<>>
        bundles == [i \in DOMAIN combos |-> {s.slot_id : s \in Range(combos[i])}]
        positive == SelectSeq(bundles, LAMBDA b : valuation(agent, b) > 0)
    IN  Append(SubSeq(positive, 1, IF positive = <<>> THEN 0 ELSE 1), {})

\* self.bundles[agent.agent_id]: the bundles of required_slots valid slots
\* with a positive valuation, then the empty bundle
generate_bundles(agent) ==
    LET valid_slots == get_valid_slots(agent, scen.slots)
        combos == IF Len(valid_slots) >= agent.required_slots
                  THEN combinations(valid_slots, agent.required_slots)
                  ELSE <<>>
        bundles == [i \in DOMAIN combos |-> {s.slot_id : s \in Range(combos[i])}]
    IN  Append(SelectSeq(bundles, LAMBDA b : valuation(agent, b) > 0), {})

\* the reserve prices of all slots counted, allocated or not
ip_compute_welfare_all_reserves(allocation) ==
    LET un == SetToSeq(SlotIds)
    IN  fadd(fsum([i \in DOMAIN un |-> SlotById(un[i]).reserve_price]),
             fsum([i \in DOMAIN scen.agents |->
                     valuation(scen.agents[i], allocation[i])]))

\* allocation: a sequence of bundles, one per agent in list order.  The sum
\* of agent valuations only, without the reserve prices of unallocated slots.
ip_compute_welfare_no_reserve(allocation) ==
    fsum([i \in DOMAIN scen.agents |-> valuation(scen.agents[i], allocation[i])])

\* IntegerProgramSolver._compute_welfare
ip_compute_welfare(allocation) ==
    LET allocated == UNION {allocation[i] : i \in DOMAIN allocation}
        un == SetToSeq(SlotIds \ allocated)
        reserve_value == fsum([i \in DOMAIN un |-> SlotById(un[i]).reserve_price])
        agent_value ==
            fsum([i \in DOMAIN scen.agents |-> valuation(scen.agents[i], allocation[i])])
    IN  fadd(reserve_value, agent_value)

RECURSIVE bundles_of(_)
\* self.bundles, filled agent by agent
bundles_of(agents) ==
    IF agents = <<>> THEN <<>>
    ELSE <<generate_bundles(Head(agents))>> \o bundles_of(Tail(agents))

RECURSIVE AssignLastBundleOnly(_, _, _, _)
\* the loop with used_slots = set(bundle) for used_slots.update(bundle): a
\* bundle is compared with the bundle of the agent just before it only
AssignLastBundleOnly(bundles, combo, used_slots, allocation) ==
    IF combo = <<>> THEN <<TRUE, allocation>>
    ELSE LET bundle == bundles[Len(allocation) + 1][Head(combo)]
             extended == Append(allocation, bundle)
         IN  IF used_slots \cap bundle # {}
             THEN <<FALSE, allocation>>
             ELSE AssignLastBundleOnly(bundles, Tail(combo), bundle, extended)

RECURSIVE AssignNoConflictCheck(_, _, _, _)
\* the loop over enumerate(combo) without `if used_slots & bundle`
AssignNoConflictCheck(bundles, combo, used_slots, allocation) ==
    IF combo = <<>> THEN <<TRUE, allocation>>
    ELSE AssignNoConflictCheck(bundles, Tail(combo), used_slots,
             Append(allocation, bundles[Len(allocation) + 1][Head(combo)]))

RECURSIVE Assign(_, _, _, _)
\* the loop over enumerate(combo): <<valid, allocation>>, cut short at the
\* first bundle that shares a slot with the bundles before it
Assign(bundles, combo, used_slots, allocation) ==
    IF combo = <<>> THEN <<TRUE, allocation>>
    ELSE LET bundle == bundles[Len(allocation) + 1][Head(combo)]
             used == used_slots \cup bundle
             extended == Append(allocation, bundle)
         IN  IF used_slots \cap bundle # {}
             THEN <<FALSE, allocation>>
             ELSE Assign(bundles, Tail(combo), used, extended)

\* one pass of the enumeration loop for combination i: <<i, valid, welfare,
\* allocation>>, welfare and allocation left empty when the combination is
\* skipped
Enumerated(bundles, combos, i) ==
    LET assigned == Assign(bundles, combos[i], {}, <<>>)
    IN  IF assigned[1]
        THEN <<i, TRUE, ip_compute_welfare(assigned[2]), assigned[2]>>
        ELSE <<i, FALSE, 0, <<>>>>

\* IntegerProgramSolver(market).solve() for the agents and slots of the
\* scenario.  The loop starts from best_welfare = -inf and replaces its best
\* only on welfare > best_welfare, so it ends with the first combination, in
\* product order, of the largest welfare among those not skipped; the
\* combination of empty bundles is never skipped.
solve_brute_force ==
    LET bundles == bundles_of(scen.agents)
        combos == product([a \in DOMAIN bundles |-> Len(bundles[a])])
        passed == {e \in {Enumerated(bundles, combos, i) : i \in DOMAIN combos} : e[2]}
        best_welfare == CHOOSE w \in {e[3] : e \in passed} :
                            \A e \in passed : e[3] <= w
        best == CHOOSE e \in passed :
                    /\ e[3] = best_welfare
                    /\ \A f \in passed : f[3] = best_welfare => e[1] <= f[1]
    IN  [allocations |-> best[4], optimal_welfare |-> best_welfare, solved |-> TRUE]

-----------------------------------------------------------------------------
(* Properties *)

\* the Market the run works on
Current == heap[market]

Owners(alloc, id) == {a \in AgentIds : id \in alloc[a]}

\* round i took slots from another agent
Evicted(i) ==
    \E id \in rounds[i].slots_bid_on : \E a \in AgentIds :
        a # rounds[i].bidder /\ id \in Range(rounds[i].allocations[a])

\* C1: partition invariant.  In every state of a run on a fresh Market, and
\* in every trace snapshot, the bundles of distinct agents are pairwise
\* disjoint; every allocated slot has exactly one owner, and get_slot_owner
\* returns that owner.
C1_PartitionInvariant ==
    /\ \A a, b \in AgentIds :
          a # b => Current.allocations[a] \cap Current.allocations[b] = {}
    /\ \A id \in SlotIds : \A a \in Owners(Current.allocations, id) :
          /\ Owners(Current.allocations, id) = {a}
          /\ get_slot_owner(Current, id) = a
    /\ \A i \in DOMAIN rounds : \A a, b \in AgentIds :
          a # b => Range(rounds[i].allocations[a]) \cap Range(rounds[i].allocations[b]) = {}

\* a slot has changed hands and two agents hold slots
C1_Witness ==
    /\ \E i \in DOMAIN rounds : Evicted(i)
    /\ \E a, b \in AgentIds :
          a # b /\ Current.allocations[a] # {} /\ Current.allocations[b] # {}

\* C2: price monotonicity.  For every slot and trace entries t1 < t2 the price
\* recorded in t1 is <= the price recorded in t2, and the price in the market
\* of the run (the final market, once the run has returned) is >= every
\* recorded price.
C2_PriceMonotone ==
    /\ \A i, j \in DOMAIN rounds : \A k \in DOMAIN scen.slots :
          i < j => rounds[i].bid_prices[k] <= rounds[j].bid_prices[k]
    /\ \A i \in DOMAIN rounds : \A k \in DOMAIN scen.slots :
          rounds[i].bid_prices[k] <= Current.bid_prices[scen.slots[k].slot_id]

\* a finished run in whose trace a price has risen
C2_Witness ==
    /\ pc = "done"
    /\ \E i, j \in DOMAIN rounds : \E k \in DOMAIN scen.slots :
          i < j /\ rounds[i].bid_prices[k] < rounds[j].bid_prices[k]

\* C3: in every state of a run on a fresh Market each slot's price is >= the
\* slot's reserve price.
C3_PriceAtLeastReserve ==
    \A id \in SlotIds : Current.bid_prices[id] >= SlotById(id).reserve_price

\* some slot with a positive reserve price has been bid above it
C3_Witness ==
    /\ market = Copy
    /\ \E id \in SlotIds :
          /\ SlotById(id).reserve_price > 0
          /\ Current.bid_prices[id] > SlotById(id).reserve_price

\* C4: termination contract.  The result has iterations <= max_iterations;
\* iterations = max_iterations implies converged = false; converged = false
\* implies iterations = max_iterations.
C4_TerminationContract ==
    pc = "done" =>
        /\ result.iterations <= scen.max_iterations
        /\ result.iterations = scen.max_iterations => ~result.converged
        /\ ~result.converged => result.iterations = scen.max_iterations

\* a run cut off by the cap while its last pass still changed something
C4_Witness ==
    /\ pc = "done"
    /\ result.iterations = scen.max_iterations
    /\ ~result.converged
    /\ any_change

\* C5: whenever a full pass over all agents makes no change, the run stops
\* after that pass and its result has converged = true, also when that pass
\* is the max_iterations-th.
C5_NoChangePassConverges_Claim ==
    /\ pc = "while" => (iteration = 0 \/ any_change)
    /\ (pc = "done" /\ ~any_change) => result.converged

\* C6: run never changes the caller's Market: its allocations and bid prices
\* are at every point what they were before the call, and the result holds
\* another Market.
C6_CallerMarketUntouched ==
    /\ heap[Caller] = NewMarket
    /\ pc = "done" => result.market # Caller

\* the run has returned a Market that differs from the caller's
C6_Witness ==
    /\ pc = "done"
    /\ heap[result.market] # heap[Caller]

\* the sets of required_slots slots with consecutive time indices on one
\* resource, all before the deadline
FeasibleWindows(agent) ==
    {W \in SUBSET SlotIds :
        /\ Cardinality(W) = agent.required_slots
        /\ \A x, y \in W : SlotById(x).cpu_id = SlotById(y).cpu_id
        /\ \A x \in W : get_time_index(SlotById(x)) < agent.deadline_slot_id
        /\ \E t \in {get_time_index(SlotById(x)) : x \in W} :
              {get_time_index(SlotById(x)) : x \in W}
                  = t..(t + agent.required_slots - 1)}

AgentById(a) == scen.agents[CHOOSE i \in DOMAIN scen.agents : scen.agents[i].agent_id = a]

\* the ask prices of the round recorded in trace entry e
AskPricesOf(e) ==
    [id \in SlotIds |->
        LET k == CHOOSE i \in DOMAIN scen.slots : scen.slots[i].slot_id = id
        IN  IF id \in Range(e.allocations[e.bidder])
            THEN e.bid_prices[k]
            ELSE fadd(e.bid_prices[k], scen.epsilon)]

LastRound == rounds[Len(rounds)]

\* C7: local optimality per round.  The surplus, at the round's ask prices, of
\* the bundle the bidder of the latest round chose (0 for the empty bundle) is
\* >= the surplus at those prices of every feasible window.
C7_LocalOptimality ==
    rounds # <<>> =>
        LET agent == AgentById(LastRound.bidder)
            ask == AskPricesOf(LastRound)
            chosen == Current.allocations[LastRound.bidder]
        IN  \A W \in FeasibleWindows(agent) :
                surplus(agent, chosen, ask) >= surplus(agent, W, ask)

\* the bidder took a window although another feasible window was strictly
\* worse and a third choice, bidding nothing, was strictly worse too
C7_Witness ==
    /\ rounds # <<>>
    /\ LET agent == AgentById(LastRound.bidder)
           ask == AskPricesOf(LastRound)
           chosen == Current.allocations[LastRound.bidder]
       IN  /\ chosen # {}
           /\ surplus(agent, chosen, ask) > 0
           /\ \E W \in FeasibleWindows(agent) :
                 W # chosen /\ surplus(agent, W, ask) < surplus(agent, chosen, ask)

\* C8: book example 1 with epsilon 0.25 and the default cap ends converged
\* after fewer than 100 rounds, with Agent2 (worth 16) on slots 0-1, Agent1
\* (worth 10) on slots 2-3, Agent4 (worth 14.5) on slots 4-7 and Agent3
\* (worth 6) holding nothing.
C8_BookExample1 ==
    (pc = "done" /\ scen = BookExample1) =>
        /\ result.converged
        /\ Len(result.rounds) < 100
        /\ heap[result.market].allocations =
              (1 :> {2, 3} @@ 2 :> {0, 1} @@ 3 :> {} @@ 4 :> {4, 5, 6, 7})

\* the run of book example 1 has returned
C8_Witness == pc = "done" /\ scen = BookExample1

\* C9: in create_book_example_2 (2 slots at reserve 3, Job1 of length 2 and
\* worth 10, Job2 of length 1 and worth 6), for each epsilon of 0.1, 0.25, 0.5
\* and 1.0, the equilibrium checker with the default tolerance reports
\* is_equilibrium = false on the final market of the auction.
C9_BookExample2NoEquilibrium ==
    (pc = "done" /\ scen.name = "book_example_2") =>
        ~check(heap[result.market]).is_equilibrium

\* the run with epsilon 0.1 has returned a market on which every agent holds
\* a best bundle: only the price of the unallocated slot stands against
\* equilibrium
C9_Witness ==
    /\ pc = "done"
    /\ scen = BookExample2Tenth
    /\ check(heap[result.market]).surplus_maximization_satisfied
    /\ ~check(heap[result.market]).unallocated_price_satisfied

\* C10: for every market with non-negative reserve prices and worths, every
\* epsilon > 0 and every max_iterations, the final welfare of the auction
\* result, converged or not, is <= the optimal welfare the brute-force
\* baseline solver returns for the same agents and slots.
C10_WelfareAtMostOptimal ==
    pc = "done" => result.final_welfare <= solve_brute_force.optimal_welfare

\* the auction has ended strictly below the optimum
C10_Witness ==
    /\ pc = "done"
    /\ result.final_welfare < solve_brute_force.optimal_welfare

epsilon_absorbed ==
    \E p \in {scen.slots[i].reserve_price : i \in DOMAIN scen.slots}
                \cup {scen.agents[i].worth : i \in DOMAIN scen.agents} :
        fadd(p, scen.epsilon) = p

-----------------------------------------------------------------------------
(* Welfare, recomputed from the final Market.                              *)

RECURSIVE SumOver(_, _)
\* the exact sum of f over the set S
SumOver(S, f) ==
    IF S = {} THEN 0
    ELSE LET x == CHOOSE y \in S : TRUE IN f[x] + SumOver(S \ {x}, f)

\* the bundle holds required_slots consecutive time indices on one CPU, all
\* before the deadline
HoldsBlock(agent, bundle) ==
    \E first \in bundle :
        \A k \in 0..(agent.required_slots - 1) :
            \E id \in bundle :
                /\ SlotById(id).cpu_id = SlotById(first).cpu_id
                /\ get_time_index(SlotById(id)) = get_time_index(SlotById(first)) + k
                /\ get_time_index(SlotById(id)) < agent.deadline_slot_id

AllOrNothing(agent, bundle) == IF HoldsBlock(agent, bundle) THEN agent.worth ELSE 0

\* sum of the reserve prices of the slots nobody holds plus the sum of the
\* agents' all-or-nothing valuations
WelfareOf(mk) ==
    SumOver({id \in SlotIds : \A a \in AgentIds : id \notin mk.allocations[a]},
            [id \in SlotIds |-> SlotById(id).reserve_price])
    + SumOver(AgentIds, [a \in AgentIds |-> AllOrNothing(AgentById(a), mk.allocations[a])])

\* C12: the final_welfare of every AuctionResult is the sum of the reserve
\* prices of the slots held by no agent in the final market plus the sum of
\* the agents' all-or-nothing valuations of their final bundles.
C12_WelfareConsistency ==
    pc = "done" => result.final_welfare = WelfareOf(heap[result.market])

\* a result whose final market has both kinds of term: a slot nobody holds
\* with a positive reserve price and an agent paid its worth
C12_Witness ==
    /\ pc = "done"
    /\ \E id \in SlotIds :
          /\ \A a \in AgentIds : id \notin heap[result.market].allocations[a]
          /\ SlotById(id).reserve_price > 0
    /\ \E a \in AgentIds :
          /\ AgentById(a).worth > 0
          /\ HoldsBlock(AgentById(a), heap[result.market].allocations[a])

-----------------------------------------------------------------------------
(* The baseline solver on the book examples, in units of $0.25.            *)

\* the bundle the solution gives to the agent of the given worth
BundleOfWorth(sol, w) ==
    sol.allocations[CHOOSE i \in DOMAIN scen.agents : scen.agents[i].worth = w]

\* the slots the solution gives to nobody
Unallocated(sol) ==
    SlotIds \ UNION {sol.allocations[i] : i \in DOMAIN sol.allocations}

\* C13: for create_book_example_1 the baseline solver returns solved = true
\* and optimal welfare 40.5: the worth-16 agent on slots 0-1, the worth-10
\* agent on slots 2-3, the worth-14.5 agent on slots 4-7, the worth-6 agent
\* unallocated, and no slot left at its reserve.
C13_BookExample1Optimum ==
    scen = BookExample1 =>
        LET sol == solve_brute_force
        IN  /\ sol.solved
            /\ sol.optimal_welfare = 162
            /\ BundleOfWorth(sol, 64) = {0, 1}
            /\ BundleOfWorth(sol, 40) = {2, 3}
            /\ BundleOfWorth(sol, 58) = {4, 5, 6, 7}
            /\ BundleOfWorth(sol, 24) = {}
            /\ Unallocated(sol) = {}

\* the solver has run on book example 1 and found the three winners' worths
C13_Witness ==
    /\ scen = BookExample1
    /\ Cardinality(SlotIds) = 8 /\ Len(scen.agents) = 4
    /\ solve_brute_force.optimal_welfare = 64 + 40 + 58

WelfaresEnumerated ==
    LET bundles == bundles_of(scen.agents)
        combos == product([a \in DOMAIN bundles |-> Len(bundles[a])])
    IN  {e[3] : e \in {f \in {Enumerated(bundles, combos, i) : i \in DOMAIN combos} : f[2]}}

\* C15: for create_book_example_2 (two slots at reserve 3; Job1 of length 2
\* worth 10; Job2 of length 1 worth 6) the baseline solver returns solved =
\* true and optimal welfare 10.0; no conflict-free assignment, Job2 on one
\* slot with the other left at its reserve included, has welfare above 10.
C15_BookExample2Optimum ==
    /\ scen = BookExample2Tenth =>
          /\ solve_brute_force.solved
          /\ solve_brute_force.optimal_welfare = 100 * FpK
    /\ scen \in {BookExample2(1), BookExample2(2), BookExample2(4)} =>
        LET sol == solve_brute_force
        IN  /\ sol.solved
            /\ sol.optimal_welfare = 40
            /\ \A w \in WelfaresEnumerated : w <= 40
            /\ ip_compute_welfare(<<{}, {0}>>) = 36
            /\ ip_compute_welfare(<<{}, {1}>>) = 36
            /\ \A b1 \in SUBSET SlotIds : \A b2 \in SUBSET SlotIds :
                  b1 \cap b2 = {} => ip_compute_welfare(<<b1, b2>>) <= 40

\* the solver has run on book example 2 and given both slots to Job1, while
\* Job2 on slot 0 was among the assignments it compared
C15_Witness ==
    /\ scen = BookExample2(1)
    /\ solve_brute_force.allocations = <<{0, 1}, {}>>
    /\ 36 \in WelfaresEnumerated

-----------------------------------------------------------------------------
(* Baseline optimality, against the assignments written out as sets.       *)

\* what one agent may hold: nothing, or exactly required_slots slots before
\* its deadline that are worth something to it
BundleChoices(agent) ==
    {{}} \cup {B \in SUBSET SlotIds :
                /\ Cardinality(B) = agent.required_slots
                /\ \A id \in B : get_time_index(SlotById(id)) < agent.deadline_slot_id
                /\ AllOrNothing(agent, B) > 0}

RECURSIVE ConflictFree(_)
\* the assignments of a bundle choice to each of the first n agents in
\* which no slot is given twice
ConflictFree(n) ==
    IF n = 0 THEN {<<>>}
    ELSE LET choices == BundleChoices(scen.agents[n])
         IN  UNION {{Append(c, B) :
                        B \in {X \in choices : \A i \in 1..(n - 1) : c[i] \cap X = {}}} :
                    c \in ConflictFree(n - 1)}

\* reserve value of the slots given to nobody plus the agents' valuations
WelfareOfAssignment(c) ==
    SumOver(SlotIds \ UNION {c[i] : i \in DOMAIN c},
            [id \in SlotIds |-> SlotById(id).reserve_price])
    + SumOver(DOMAIN c, [i \in DOMAIN c |-> AllOrNothing(scen.agents[i], c[i])])

\* C16: baseline optimality.  The optimal_welfare the baseline solver
\* returns is the welfare of the allocation it returns, and is >= the
\* welfare (reserve value of unallocated slots plus agent valuations) of
\* every conflict-free combination in which each agent holds the empty
\* bundle or exactly required_slots slots before its deadline of positive
\* valuation.  The solver is a function of the agents and slots alone, so
\* it is compared once per market, before the auction starts (every market
\* of the model comes with a max_iterations other than MaxIter).
C16_BaselineOptimality ==
    (pc = "start" /\ scen.max_iterations # MaxIter) =>
        LET sol == solve_brute_force
            free == ConflictFree(Len(scen.agents))
        IN  /\ sol.optimal_welfare = WelfareOfAssignment(sol.allocations)
            /\ sol.allocations \in free
            /\ \A c \in free : WelfareOfAssignment(c) <= sol.optimal_welfare

\* a market where the solver had to choose: some conflict-free combination
\* that allocates a slot is strictly worse than the optimum, and the optimum
\* itself leaves a slot at its reserve
C16_Witness ==
    /\ pc = "start"
    /\ scen.max_iterations # MaxIter
    /\ \E c \in ConflictFree(Len(scen.agents)) :
          /\ \E i \in DOMAIN c : c[i] # {}
          /\ WelfareOfAssignment(c) < solve_brute_force.optimal_welfare
    /\ \E i \in DOMAIN scen.agents : solve_brute_force.allocations[i] # {}
    /\ Unallocated(solve_brute_force) # {}

-----------------------------------------------------------------------------
(* Market.compute_ask_prices and Agent.find_best_bundle called on their    *)
(* own: on slot lists in every list order, price maps and allocations that *)
(* need not come from a run.                                               *)

\* two CPUs with two time steps each, and one CPU; unit reserve prices
TwoCpuSlots == create_slots(2, 1, 2)
OneCpuSlots == create_slots(MaxSlots, 1, 1)

\* the list in every order
Reordered(xs) == {[i \in DOMAIN xs |-> xs[o[i]]] : o \in Orders(DOMAIN xs)}

\* a bidder of any deadline, length and worth next to a single-slot agent
BundleCalls ==
    {Scenario("find_best_bundle",
              <<Agent(1, d, len, w), Agent(2, MaxSlots, 1, MaxWorth)>>,
              slots, 1, 1, FALSE) :
        d \in 1..MaxSlots, len \in Lengths, w \in (MaxWorth - 1)..MaxWorth,
        slots \in Reordered(TwoCpuSlots) \cup Reordered(OneCpuSlots)}

AskCalls ==
    {Scenario("compute_ask_prices",
              <<Agent(1, MaxSlots, 2, MaxWorth), Agent(2, MaxSlots, 1, MaxWorth)>>,
              slots, 1, 1, FALSE) : slots \in {TwoCpuSlots, OneCpuSlots}}

\* a bidder with the earliest or the latest deadline and any length, worth
\* its slots at the reserve prices or more, next to a single-slot agent, on
\* one CPU; a bidder on two CPUs
CheckCalls ==
    {Scenario("check",
              <<Agent(1, d, len, w), Agent(2, MaxSlots, 1, MaxWorth)>>,
              OneCpuSlots, 1, 1, FALSE) :
        d \in {1, MaxSlots}, len \in Lengths, w \in {1, MaxWorth}}
    \cup {Scenario("check", <<Agent(1, 2, len, MaxWorth)>>, TwoCpuSlots, 1, 1, FALSE) :
            len \in Lengths}

\* a Market whose bundles are disjoint and whose prices are a reserve price
\* or one unit above
MarketWith(owner, prices) ==
    [allocations |-> [a \in AgentIds |-> {id \in SlotIds : owner[id] = a}],
     bid_prices |-> prices]

CallInit ==
    /\ \/ /\ pc = "find_best_bundle"
          /\ scen \in BundleCalls
          /\ \E prices \in [SlotIds -> 1..2] :
                heap = [id \in {Caller, Copy} |->
                          IF id = Caller
                          THEN MarketWith([x \in SlotIds |-> None], prices)
                          ELSE None]
       \/ /\ pc = "compute_ask_prices"
          /\ scen \in AskCalls
          /\ \E owner \in [SlotIds -> {None} \cup AgentIds] :
             \E prices \in [SlotIds -> 1..2] :
                heap = [id \in {Caller, Copy} |->
                          IF id = Caller THEN MarketWith(owner, prices) ELSE None]
       \/ /\ pc = "check"
          /\ scen \in CheckCalls
          /\ \E owner \in [SlotIds -> {None} \cup AgentIds] :
             \E prices \in [SlotIds -> 0..2] :
                heap = [id \in {Caller, Copy} |->
                          IF id = Caller THEN MarketWith(owner, prices) ELSE None]
    /\ market = Caller
    /\ rounds = <<>>
    /\ round_num = 0
    /\ iteration = 0
    /\ any_change = FALSE
    /\ agent_idx = 0
    /\ result = None

\* agent.find_best_bundle(market.slots, prices, current_allocation)
CallFindBestBundle ==
    /\ pc = "find_best_bundle"
    /\ LET agent == scen.agents[1]
           mk == heap[market]
           found == find_best_bundle(agent, scen.slots, mk.bid_prices,
                                     get_allocation(mk, agent))
       IN  result' = [agent |-> agent.agent_id, prices |-> mk.bid_prices,
                      best_bundle |-> found[1], best_surplus |-> found[2]]
    /\ pc' = "found"
    /\ UNCHANGED <<scen, heap, market, rounds, round_num, iteration, any_change,
                   agent_idx>>

\* market.compute_ask_prices(agent, epsilon): the method assigns to its
\* local ask_prices only
CallComputeAskPrices ==
    /\ pc = "compute_ask_prices"
    /\ \E i \in DOMAIN scen.agents :
          result' = [agent |-> scen.agents[i].agent_id,
                     market_before |-> heap[market],
                     ask_prices |-> compute_ask_prices(heap[market], scen.agents[i],
                                                       scen.epsilon)]
    /\ pc' = "asked"
    /\ UNCHANGED <<scen, heap, market, rounds, round_num, iteration, any_change,
                   agent_idx>>

\* check_equilibrium(market): allocations and prices set by the caller, the
\* prices below, at or above the reserve prices
CallCheck ==
    /\ pc = "check"
    /\ LET called == check_call(heap, market)
       IN  /\ result' = called[1]
           /\ heap' = called[2]
    /\ pc' = "checked"
    /\ UNCHANGED <<scen, market, rounds, round_num, iteration, any_change, agent_idx>>

CallNext == CallFindBestBundle \/ CallComputeAskPrices \/ CallCheck

CallSpec == CallInit /\ [][CallNext]_vars

\* C17: compute_ask_prices(agent, epsilon) returns a map over all slots in
\* which every slot the agent holds, the slots of a partial bundle left
\* after an eviction included, has its current price and every other slot
\* its current price plus epsilon; the call changes neither the prices nor
\* the allocations of the market.
C17_AskPrices ==
    pc = "asked" =>
        /\ DOMAIN result.ask_prices = SlotIds
        /\ \A id \in SlotIds :
              result.ask_prices[id] =
                  IF result.agent \in Owners(result.market_before.allocations, id)
                  THEN result.market_before.bid_prices[id]
                  ELSE result.market_before.bid_prices[id] + scen.epsilon
        /\ heap[market] = result.market_before

\* ask prices were computed for an agent of length 2 that holds one slot
\* only, while the other agent holds a slot and a third slot is free
C17_Witness ==
    /\ pc = "asked"
    /\ AgentById(result.agent).required_slots = 2
    /\ Cardinality(result.market_before.allocations[result.agent]) = 1
    /\ \E a \in AgentIds \ {result.agent} : result.market_before.allocations[a] # {}
    /\ get_unallocated_slots(result.market_before) # {}

\* the agent has fewer slots before its deadline on every CPU than it needs
TooFewValidSlots(agent) ==
    \A c \in {scen.slots[i].cpu_id : i \in DOMAIN scen.slots} :
        Cardinality({id \in SlotIds :
                        /\ SlotById(id).cpu_id = c
                        /\ get_time_index(SlotById(id)) < agent.deadline_slot_id})
            < agent.required_slots

\* C18: the bundle optimiser never returns a loss-making bundle.  When the
\* agent has fewer valid slots before its deadline on every resource than
\* required_slots, or when every feasible window has a negative surplus at
\* the given prices, find_best_bundle returns the empty bundle with surplus
\* exactly 0; the surplus it returns is never negative, and is the surplus
\* of the bundle it returns.
C18_NoLossMakingBundle ==
    pc = "found" =>
        LET agent == AgentById(result.agent)
        IN  /\ result.best_surplus >= 0
            /\ result.best_surplus = surplus(agent, result.best_bundle, result.prices)
            /\ (\/ TooFewValidSlots(agent)
                \/ \A W \in FeasibleWindows(agent) :
                      surplus(agent, W, result.prices) < 0)
                  => (result.best_bundle = {} /\ result.best_surplus = 0)

\* the optimiser was given feasible windows, every one of them at a loss, and
\* returned the empty bundle
C18_Witness ==
    /\ pc = "found"
    /\ FeasibleWindows(AgentById(result.agent)) # {}
    /\ \A W \in FeasibleWindows(AgentById(result.agent)) :
          surplus(AgentById(result.agent), W, result.prices) < 0
    /\ result.best_bundle = {}

\* resource id and starting time index of a window
WindowKey(W) ==
    LET first == CHOOSE x \in W :
                     \A y \in W : get_time_index(SlotById(x)) <= get_time_index(SlotById(y))
    IN  <<SlotById(first).cpu_id, get_time_index(SlotById(first))>>

KeyBefore(k, l) == k[1] < l[1] \/ (k[1] = l[1] /\ k[2] <= l[2])

\* the feasible windows of the greatest surplus
TopWindows(agent, prices) ==
    {W \in FeasibleWindows(agent) :
        \A V \in FeasibleWindows(agent) :
            surplus(agent, V, prices) <= surplus(agent, W, prices)}

\* C19: deterministic tie-breaking.  For any slot list, in any order, and any
\* price map, when several feasible windows share the greatest positive
\* surplus, find_best_bundle returns the one that comes first in the order
\* ascending resource id, then ascending starting time index.
C19_TieBreaking_Claim ==
    pc = "found" =>
        LET agent == AgentById(result.agent)
            top == TopWindows(agent, result.prices)
        IN  (/\ Cardinality(top) > 1
             /\ \A W \in top : surplus(agent, W, result.prices) > 0)
            => /\ result.best_bundle \in top
               /\ \A W \in top : KeyBefore(WindowKey(result.best_bundle), WindowKey(W))

-----------------------------------------------------------------------------
(* The trace as a timeline.                                                *)

\* the bundle the bidder of trace entry e chose, recomputed from the entry
ChosenIn(e) ==
    find_best_bundle(AgentById(e.bidder), scen.slots, AskPricesOf(e),
                     Range(e.allocations[e.bidder]))[1]

\* prices (in slot list order) after the updates of entry e, and below the
\* bundles, both worked out from the entry alone
PricesAfter(e) ==
    [i \in DOMAIN scen.slots |->
        IF scen.slots[i].slot_id \in e.slots_bid_on
        THEN fadd(e.bid_prices[i], scen.epsilon)
        ELSE e.bid_prices[i]]

BundlesAfter(e, chosen) ==
    [a \in AgentIds |->
        IF a = e.bidder THEN chosen
        ELSE Range(e.allocations[a]) \ e.slots_bid_on]

\* C20: each trace entry records the market as it is before that round's
\* updates.  Entry 1 of a run on a fresh market shows empty allocations and
\* the reserve prices; for consecutive entries k and k+1 the price vector of
\* entry k+1 is that of entry k plus epsilon on exactly the slots of entry
\* k's slots_bid_on, and the allocation of entry k+1 is that of entry k with
\* those slots removed from their previous holders and the bidder of entry k
\* holding its chosen bundle.  The market after the latest round stands to
\* the latest entry as a next entry would, in every state; the pairs of
\* consecutive entries are compared on the trace the run returns.
C20_TraceTimeline ==
    /\ rounds # <<>> =>
          LET chosen == ChosenIn(LastRound)
          IN  /\ \A a \in AgentIds : rounds[1].allocations[a] = <<>>
              /\ \A i \in DOMAIN scen.slots :
                    rounds[1].bid_prices[i] = scen.slots[i].reserve_price
              /\ \A a \in AgentIds :
                    Current.allocations[a] = BundlesAfter(LastRound, chosen)[a]
              /\ \A i \in DOMAIN scen.slots :
                    Current.bid_prices[scen.slots[i].slot_id] = PricesAfter(LastRound)[i]
    /\ pc = "done" => \A k \in 1..(Len(result.rounds) - 1) :
          LET e == result.rounds[k]
              next == result.rounds[k + 1]
              chosen == ChosenIn(e)
          IN  /\ next.bid_prices = PricesAfter(e)
              /\ \A a \in AgentIds :
                    Range(next.allocations[a]) = BundlesAfter(e, chosen)[a]
              /\ e.slots_bid_on = chosen \ Range(e.allocations[e.bidder])

\* a returned trace in which an entry took a slot from another agent and an
\* entry shows its bidder giving up the slots it was left with
C20_Witness ==
    /\ pc = "done"
    /\ \E k \in 1..(Len(rounds) - 1) : Evicted(k)
    /\ \E k \in 1..(Len(rounds) - 1) :
          /\ rounds[k].allocations[rounds[k].bidder] # <<>>
          /\ rounds[k + 1].allocations[rounds[k].bidder] = <<>>

-----------------------------------------------------------------------------
(* Markets without agents or without slots.                                *)

\* C21: for a market with zero agents or with zero slots, a run with any
\* max_iterations >= 1 converges immediately: it performs exactly one pass,
\* that pass makes no change, and the result has converged = true,
\* iterations = 1 and allocations and prices equal to the initial ones.
C21_EmptyMarketConverges_Claim ==
    (pc = "done" /\ (scen.agents = <<>> \/ scen.slots = <<>>)) =>
        /\ result.iterations = 1
        /\ ~any_change
        /\ heap[result.market] = NewMarket
        /\ result.converged

-----------------------------------------------------------------------------
(* Competitive equilibrium, Definition 2.3.11, on markets set by the       *)
(* caller.                                                                 *)

Checked == heap[market]

\* the price of a bundle
CostOf(W, prices) == SumOver(W, prices)

\* the largest surplus over the empty bundle and the feasible windows
BestSurplusOf(agent, prices) ==
    LET surpluses == {0} \cup {agent.worth - CostOf(W, prices) : W \in FeasibleWindows(agent)}
    IN  CHOOSE x \in surpluses : \A y \in surpluses : y <= x

\* the market before any round: no agent holds a slot, every price is the
\* reserve price
FreshMarket(mk) ==
    /\ \A a \in AgentIds : mk.allocations[a] = {}
    /\ \A id \in SlotIds : mk.bid_prices[id] = SlotById(id).reserve_price

\* C22: equilibrium condition 1.  surplus_maximization_satisfied is true
\* exactly when, for every agent, the best surplus over the empty bundle and
\* all feasible windows at the current bid prices is at most the agent's
\* surplus at its current allocation plus the tolerance; a fresh market in
\* which some agent has a window costing less than its worth is reported as
\* not an equilibrium.
C22_SurplusMaximization ==
    pc = "checked" =>
        /\ result.surplus_maximization_satisfied =
              (\A i \in DOMAIN scen.agents :
                  LET agent == scen.agents[i]
                  IN  BestSurplusOf(agent, Checked.bid_prices)
                         <= surplus(agent, Checked.allocations[agent.agent_id],
                                    Checked.bid_prices) + tolerance)
        /\ (/\ FreshMarket(Checked)
            /\ \E i \in DOMAIN scen.agents : \E W \in FeasibleWindows(scen.agents[i]) :
                  CostOf(W, Checked.bid_prices) < scen.agents[i].worth)
              => ~result.is_equilibrium

\* a checked market in which an agent holds its best window at a positive
\* surplus while the other agent has nothing to gain: condition 1 holds
C22_Witness ==
    /\ pc = "checked"
    /\ result.surplus_maximization_satisfied
    /\ \E i \in DOMAIN scen.agents :
          /\ Checked.allocations[scen.agents[i].agent_id] \in FeasibleWindows(scen.agents[i])
          /\ surplus(scen.agents[i], Checked.allocations[scen.agents[i].agent_id],
                     Checked.bid_prices) > 0
    /\ \E id \in SlotIds : Checked.bid_prices[id] # SlotById(id).reserve_price

\* the slots no agent holds
Unheld(mk) == {id \in SlotIds : Owners(mk.allocations, id) = {}}

\* C23: equilibrium condition 2.  unallocated_price_satisfied is true exactly
\* when every slot no agent holds has a price within the tolerance of its
\* reserve price; an unallocated slot priced above or below its reserve by
\* more than the tolerance makes is_equilibrium false.
C23_UnallocatedPrice ==
    pc = "checked" =>
        /\ result.unallocated_price_satisfied =
              (\A id \in Unheld(Checked) :
                  /\ Checked.bid_prices[id] <= SlotById(id).reserve_price + tolerance
                  /\ Checked.bid_prices[id] >= SlotById(id).reserve_price - tolerance)
        /\ (\E id \in Unheld(Checked) :
              \/ Checked.bid_prices[id] > SlotById(id).reserve_price + tolerance
              \/ Checked.bid_prices[id] < SlotById(id).reserve_price - tolerance)
              => ~result.is_equilibrium

\* a checked market in which no unallocated slot is priced above its reserve
\* and one is priced below it, while every held slot passes condition 3
C23_Witness ==
    /\ pc = "checked"
    /\ ~result.unallocated_price_satisfied
    /\ ~result.is_equilibrium
    /\ result.allocated_price_satisfied
    /\ \A id \in Unheld(Checked) : Checked.bid_prices[id] <= SlotById(id).reserve_price
    /\ Unheld(Checked) # SlotIds

\* C24: equilibrium condition 3.  allocated_price_satisfied is true exactly
\* when every slot some agent holds has a price of at least its reserve price
\* minus the tolerance; is_equilibrium is true exactly when conditions 1, 2
\* and 3 all hold.
C24_AllocatedPrice ==
    pc = "checked" =>
        /\ result.allocated_price_satisfied =
              (\A id \in SlotIds \ Unheld(Checked) :
                  Checked.bid_prices[id] >= SlotById(id).reserve_price - tolerance)
        /\ result.is_equilibrium =
              (/\ result.surplus_maximization_satisfied
               /\ result.unallocated_price_satisfied
               /\ result.allocated_price_satisfied)

\* a checked market that fails condition 3 alone: a held slot is priced below
\* its reserve, an unallocated slot is at its reserve
C24_Witness ==
    /\ pc = "checked"
    /\ ~result.allocated_price_satisfied
    /\ result.surplus_maximization_satisfied
    /\ result.unallocated_price_satisfied
    /\ ~result.is_equilibrium
    /\ Unheld(Checked) # {}

-----------------------------------------------------------------------------
(* Book example 1 at its final state.                                      *)

\* C25: book example 1 run with epsilon 0.25 reaches equilibrium: the final
\* market satisfies the three equilibrium conditions either exactly, at the
\* default tolerance, or approximately, when every condition is relaxed by a
\* slack of 0.5 (two units of $0.25).
C25_BookExample1Equilibrium ==
    (pc = "done" /\ scen = BookExample1) =>
        \/ check(heap[result.market]).is_equilibrium
        \/ check_with(heap[result.market], 2).is_equilibrium

\* the run of book example 1 has returned a market that the exact check
\* rejects on condition 1 only and the check with the slack accepts
C25_Witness ==
    /\ pc = "done"
    /\ scen = BookExample1
    /\ result.converged
    /\ ~check(heap[result.market]).surplus_maximization_satisfied
    /\ check(heap[result.market]).unallocated_price_satisfied
    /\ check(heap[result.market]).allocated_price_satisfied
    /\ check_with(heap[result.market], 2).is_equilibrium

-----------------------------------------------------------------------------
(* Determinism of the run.                                                 *)

\* best_bundle of the round of the agent on the market mk
BestBundleOf(mk, agent) ==
    find_best_bundle(agent, scen.slots, compute_ask_prices(mk, agent, scen.epsilon),
                     get_allocation(mk, agent))[1]

\* new_slots of that round
NewSlotsOf(mk, agent) == BestBundleOf(mk, agent) \ get_allocation(mk, agent)

\* the market after that round, the slots of new_slots visited in the order
\* given
RoundWith(mk, agent, order) ==
    LET bid == BidOnSlots(mk, agent, order, 1, scen.epsilon)
    IN  IF BestBundleOf(mk, agent) # get_allocation(mk, agent)
        THEN set_allocation(bid, agent, BestBundleOf(mk, agent))
        ELSE bid

RECURSIVE Rerun(_, _, _, _, _)
\* a second run on the same inputs, from the market mk, the trace rs, `it`
\* passes done, position i of the pass and the change flag of the pass; it
\* visits the slots of every new_slots in ascending id order
Rerun(mk, rs, it, i, changed) ==
    IF i = 1 /\ ~(it < scen.max_iterations)
    THEN [market |-> mk, rounds |-> rs, iterations |-> it,
          converged |-> Converged(it, scen.max_iterations)]
    ELSE IF i <= Len(scen.agents)
    THEN LET agent == scen.agents[i]
             new_slots == NewSlotsOf(mk, agent)
         IN  Rerun(RoundWith(mk, agent, SetToSeq(new_slots)),
                   Append(rs, AuctionRound(Len(rs) + 1, agent, new_slots, mk)),
                   it, i + 1,
                   \/ changed
                   \/ new_slots # {}
                   \/ BestBundleOf(mk, agent) # get_allocation(mk, agent))
    ELSE IF ~changed
    THEN [market |-> mk, rounds |-> rs, iterations |-> it + 1,
          converged |-> Converged(it + 1, scen.max_iterations)]
    ELSE Rerun(mk, rs, it + 1, 1, FALSE)

\* a returned run equals the second run on its inputs
SameAsRerun ==
    pc = "done" =>
        LET second == Rerun(NewMarket, <<>>, 0, 1, FALSE)
        IN  /\ result.rounds = second.rounds
            /\ heap[result.market].allocations = second.market.allocations
            /\ heap[result.market].bid_prices = second.market.bid_prices
            /\ result.converged = second.converged
            /\ result.iterations = second.iterations

\* a round leaves the same market in whichever order it visits its new_slots
OrderIndependentRound ==
    (pc = "for" /\ agent_idx <= Len(scen.agents)) =>
        \A order \in Orders(NewSlotsOf(Current, scen.agents[agent_idx])) :
            heap'[market'] = RoundWith(Current, scen.agents[agent_idx], order)

\* C26: two runs with the same agents in the same order, the same slots,
\* initial market, epsilon and max_iterations produce identical traces, final
\* allocations, final prices, converged flags and iteration counts; the
\* outcome of a round does not depend on the order in which the slots of
\* new_slots are processed.
C26_Determinism == []SameAsRerun /\ [][OrderIndependentRound]_vars

\* a returned run in which some round took two or more slots, one of them
\* from another agent
C26_Witness ==
    /\ pc = "done"
    /\ \E i \in DOMAIN rounds :
          /\ Cardinality(rounds[i].slots_bid_on) >= 2
          /\ Evicted(i)

-----------------------------------------------------------------------------
(* Structure of the trace.                                                 *)

\* the trace entry k is numbered k, its bidder is the agent at position
\* (k - 1) mod n of the agent list, and it lists a price for every slot and
\* a bundle for every agent
WellFormedEntry(k) ==
    /\ rounds[k].round_num = k
    /\ rounds[k].round_num > 0
    /\ rounds[k].bidder = scen.agents[((k - 1) % Len(scen.agents)) + 1].agent_id
    /\ Len(rounds[k].bid_prices) = Len(scen.slots)
    /\ DOMAIN rounds[k].allocations = AgentIds

\* C27: a run of I passes over n agents records exactly I * n trace entries,
\* numbered 1..I*n (every round number is positive); the bidder of entry k is
\* the agent at position (k - 1) mod n; every entry carries a price for every
\* slot and an allocation for every agent.
C27_TraceStructure ==
    /\ pc \in {"while", "exit", "done"} => Len(rounds) = iteration * Len(scen.agents)
    /\ pc = "for" => Len(rounds) = iteration * Len(scen.agents) + agent_idx - 1
    /\ \A k \in DOMAIN rounds : WellFormedEntry(k)
    /\ pc = "done" =>
          /\ result.rounds = rounds
          /\ Len(result.rounds) = result.iterations * Len(scen.agents)

\* a run of two agents returned after at least two passes, in the second of
\* which the first agent made a bid
C27_Witness ==
    /\ pc = "done"
    /\ Len(scen.agents) = 2
    /\ result.iterations >= 2
    /\ Len(result.rounds) = 2 * result.iterations
    /\ result.rounds[3].bidder = scen.agents[1].agent_id
    /\ result.rounds[3].slots_bid_on # {}

-----------------------------------------------------------------------------
(* Sign of the welfare.                                                    *)

\* every reserve price and every worth of the scenario is non-negative
NonNegativeInputs ==
    /\ \A i \in DOMAIN scen.slots : scen.slots[i].reserve_price >= 0
    /\ \A i \in DOMAIN scen.agents : scen.agents[i].worth >= 0

\* C28: for every market with non-negative reserve prices and worths, the
\* final welfare of a run is non-negative, and so is the welfare of every
\* intermediate state of the market.
C28_WelfareNonNegative ==
    NonNegativeInputs =>
        /\ compute_solution_value(Current) >= 0
        /\ pc = "done" => result.final_welfare >= 0

\* a run has returned with an agent out-priced: the welfare is what is left,
\* the reserve prices of the slots nobody holds and the worth of the others
C28_Witness ==
    /\ pc = "done"
    /\ NonNegativeInputs
    /\ result.final_welfare > 0
    /\ \E i \in DOMAIN rounds : Evicted(i)
    /\ \E a \in AgentIds : Current.allocations[a] = {}
    /\ Unheld(Current) # {}

-----------------------------------------------------------------------------
(* Price increments.                                                       *)

\* the price of the slot at list position j in the market that followed
\* trace entry k
PriceAfterEntry(k, j) ==
    IF k < Len(rounds) THEN rounds[k + 1].bid_prices[j]
    ELSE Current.bid_prices[scen.slots[j].slot_id]

\* the number of rounds so far in which the slot was in new_slots
TimesBidOn(id) == Cardinality({k \in DOMAIN rounds : id \in rounds[k].slots_bid_on})

\* C29: in every round the price of each slot of new_slots rises by exactly
\* epsilon and the price of every other slot is unchanged, so a slot changes
\* hands together with exactly one epsilon increment, and every price equals
\* its initial value plus epsilon times the number of rounds in which the
\* slot was in new_slots.  Sums, differences and products are those of the
\* real numbers.
C29_ExactIncrements_Claim ==
    /\ rounds # <<>> =>
          \A j \in DOMAIN scen.slots :
              PriceAfterEntry(Len(rounds), j) - LastRound.bid_prices[j] =
                  IF scen.slots[j].slot_id \in LastRound.slots_bid_on
                  THEN scen.epsilon
                  ELSE 0
    /\ \A id \in SlotIds :
          Current.bid_prices[id] =
              SlotById(id).reserve_price + scen.epsilon * TimesBidOn(id)

-----------------------------------------------------------------------------
(* Effect of one round on the allocations.                                 *)

\* the step is the round of the agent at agent_idx
RoundStep == pc = "for" /\ agent_idx <= Len(scen.agents) /\ rounds' # rounds

\* after the round the bidder holds best_bundle, every other agent holds what
\* it held less new_slots, and the slots the bidder gave up have no owner
RoundEffect ==
    LET b == scen.agents[agent_idx]
        before == heap[market].allocations
        after == heap'[market'].allocations
        best_bundle == BestBundleOf(heap[market], b)
        new_slots == best_bundle \ before[b.agent_id]
    IN  /\ after[b.agent_id] = best_bundle
        /\ \A a \in AgentIds \ {b.agent_id} : after[a] = before[a] \ new_slots
        /\ \A id \in before[b.agent_id] \ best_bundle : Owners(after, id) = {}

\* C30: effect of one round on allocations.  After the round of bidder b, b
\* holds exactly best_bundle, and every other agent's bundle equals its bundle
\* before the round minus the slots of new_slots: it loses exactly the slots b
\* newly bid on and gains nothing; the slots of b's previous bundle that are
\* not in best_bundle become unallocated.
C30_RoundEffect == [][RoundStep => RoundEffect]_vars

\* a returned run in which one round took a slot from another agent and in
\* another round the bidder gave up a slot it held
C30_Witness ==
    /\ pc = "done"
    /\ \E k \in DOMAIN rounds : Evicted(k)
    /\ \E k \in 1..(Len(rounds) - 1) :
          Range(rounds[k].allocations[rounds[k].bidder])
              \ Range(rounds[k + 1].allocations[rounds[k].bidder]) # {}

-----------------------------------------------------------------------------
(* The last pass of a converged run.                                       *)

\* trace entry k shows the market mk
SnapshotOf(k, mk) ==
    /\ \A a \in AgentIds : Range(result.rounds[k].allocations[a]) = mk.allocations[a]
    /\ \A j \in DOMAIN scen.slots :
          result.rounds[k].bid_prices[j] = mk.bid_prices[scen.slots[j].slot_id]

\* the trace entries of the last pass
LastPass ==
    {k \in DOMAIN result.rounds : k > Len(result.rounds) - Len(scen.agents)}

\* C31: a result reports converged = true only if the last pass changed
\* nothing: in a converged result the allocations and prices of the final
\* market equal the snapshot recorded in each of the last n trace entries,
\* n the number of agents, and each of those entries has an empty
\* slots_bid_on.
C31_ConvergedMeansQuietPass ==
    (pc = "done" /\ result.converged) =>
        /\ Cardinality(LastPass) = Len(scen.agents)
        /\ \A k \in LastPass :
              /\ result.rounds[k].slots_bid_on = {}
              /\ SnapshotOf(k, heap[result.market])

\* a converged result of two agents whose last pass follows a pass with bids
C31_Witness ==
    /\ pc = "done"
    /\ result.converged
    /\ Len(scen.agents) = 2
    /\ result.iterations >= 2
    /\ \E k \in DOMAIN result.rounds : result.rounds[k].slots_bid_on # {}
    /\ \E a \in AgentIds : heap[result.market].allocations[a] # {}

-----------------------------------------------------------------------------
(* Feasibility of the baseline allocation.                                 *)

\* C32: baseline feasibility.  In the allocation the baseline solver returns
\* the bundles of distinct agents are pairwise disjoint, and each agent's
\* bundle is either empty or exactly required_slots slots with consecutive
\* time indices on one CPU, all before the agent's deadline; the solver
\* always returns solved = true, and with zero agents it returns the sum of
\* all reserve prices.
C32_BaselineFeasibility ==
    (pc = "start" /\ scen.max_iterations # MaxIter) =>
        LET sol == solve_brute_force
        IN  /\ DOMAIN sol.allocations = DOMAIN scen.agents
            /\ \A i, j \in DOMAIN scen.agents :
                  i # j => sol.allocations[i] \cap sol.allocations[j] = {}
            /\ \A i \in DOMAIN scen.agents :
                  \/ sol.allocations[i] = {}
                  \/ sol.allocations[i] \in FeasibleWindows(scen.agents[i])
            /\ sol.solved
            /\ scen.agents = <<>> =>
                  sol.optimal_welfare =
                      SumOver(SlotIds, [id \in SlotIds |-> SlotById(id).reserve_price])

\* the solver was run on book example 1: three agents get a window and the
\* agent of length 1, which competes for the same slots, gets nothing
C32_Witness ==
    /\ pc = "start"
    /\ scen = BookExample1
    /\ Cardinality({i \in DOMAIN scen.agents : solve_brute_force.allocations[i] # {}}) = 3
    /\ solve_brute_force.allocations[3] = {}

-----------------------------------------------------------------------------
(* The equilibrium checker as a function of the market.                    *)

\* a check leaves the allocations and the prices of the market as they were
CheckLeavesMarket ==
    pc = "check" =>
        /\ heap'[market'].allocations = heap[market].allocations
        /\ heap'[market'].bid_prices = heap[market].bid_prices

\* check_equilibrium(market) once more, on the market as the first check
\* left it
SecondCheck == check_call(heap, market)[1]

\* the second of two checks returns what the first returned
SameVerdicts ==
    pc = "checked" =>
        LET second == SecondCheck
        IN  /\ second.is_equilibrium = result.is_equilibrium
            /\ second.surplus_maximization_satisfied
                  = result.surplus_maximization_satisfied
            /\ second.unallocated_price_satisfied = result.unallocated_price_satisfied
            /\ second.allocated_price_satisfied = result.allocated_price_satisfied
            /\ second.agent_surpluses = result.agent_surpluses
            /\ second.best_surpluses = result.best_surpluses

-----------------------------------------------------------------------------
(* Bundles of a converged result.                                          *)

\* the agent holds some slots and they are not a feasible window
PartialBundle(mk, agent) ==
    /\ mk.allocations[agent.agent_id] # {}
    /\ mk.allocations[agent.agent_id] \notin FeasibleWindows(agent)

-----------------------------------------------------------------------------
(* Bundles during a run.                                                   *)

\* the bundle fits in a window of the agent: at most required_slots slots,
\* all on one CPU, all before the deadline, within required_slots consecutive
\* time indices
FitsInWindow(agent, bundle) ==
    /\ Cardinality(bundle) <= agent.required_slots
    /\ \A x, y \in bundle : SlotById(x).cpu_id = SlotById(y).cpu_id
    /\ \A x \in bundle : get_time_index(SlotById(x)) < agent.deadline_slot_id
    /\ \A x, y \in bundle :
          get_time_index(SlotById(y)) - get_time_index(SlotById(x))
              < agent.required_slots

\* C35: in every state reached by a run from a fresh market each agent's
\* bundle is a subset of one feasible window of that agent: it has at most
\* required_slots slots, all on one CPU, all with a time index below the
\* deadline, and spanning fewer than required_slots consecutive positions
\* beyond its earliest slot; an agent never holds a slot at or after its
\* deadline.
C35_BundleWithinWindow ==
    \A i \in DOMAIN scen.agents :
        LET agent == scen.agents[i]
            bundle == Current.allocations[agent.agent_id]
        IN  /\ FitsInWindow(agent, bundle)
            /\ bundle # {} => \E W \in FeasibleWindows(agent) : bundle \subseteq W

\* the bidder of the latest round, left with part of a window by an eviction,
\* has moved to another window and given up the slot it still held
C35_Witness ==
    /\ rounds # <<>>
    /\ Current.allocations[LastRound.bidder] # {}
    /\ Range(LastRound.allocations[LastRound.bidder])
          \ Current.allocations[LastRound.bidder] # {}
    /\ Cardinality({a \in AgentIds : Current.allocations[a] # {}}) >= 2

-----------------------------------------------------------------------------
(* Approximate surplus maximisation at convergence.                        *)

\* the largest required_slots among the agents
LargestLength ==
    IF scen.agents = <<>> THEN 0
    ELSE CHOOSE n \in {scen.agents[i].required_slots : i \in DOMAIN scen.agents} :
             \A i \in DOMAIN scen.agents : scen.agents[i].required_slots <= n

\* C36: epsilon-approximate surplus maximisation at convergence.  In the
\* final market of every converged run, for every agent the best surplus over
\* the empty bundle and all feasible windows at the final prices exceeds the
\* agent's surplus at its own final bundle by at most required_slots *
\* epsilon, so the checker's condition 1 holds whenever the tolerance is at
\* least the largest required_slots times epsilon.
C36_ApproximateSurplusMaximisation_Claim ==
    (pc = "done" /\ result.converged) =>
        LET final == heap[result.market]
        IN  /\ \A i \in DOMAIN scen.agents :
                  LET agent == scen.agents[i]
                      own == surplus(agent, final.allocations[agent.agent_id],
                                     final.bid_prices)
                  IN  /\ 0 <= own + agent.required_slots * scen.epsilon
                      /\ \A W \in FeasibleWindows(agent) :
                            surplus(agent, W, final.bid_prices)
                                <= own + agent.required_slots * scen.epsilon
            /\ check_with(final, LargestLength * scen.epsilon).surplus_maximization_satisfied

-----------------------------------------------------------------------------
(* Upper bound on prices.                                                  *)

\* the largest worth among the agents, 0 when there is none
LargestWorth ==
    IF scen.agents = <<>> THEN 0
    ELSE CHOOSE w \in {scen.agents[i].worth : i \in DOMAIN scen.agents} :
             \A i \in DOMAIN scen.agents : scen.agents[i].worth <= w

\* the slots of new_slots in the latest round pay less than the bidder's worth
NewBidsBelowWorth ==
    rounds # <<>> =>
        \A j \in DOMAIN scen.slots :
            scen.slots[j].slot_id \in LastRound.slots_bid_on =>
                PriceAfterEntry(Len(rounds), j) < AgentById(LastRound.bidder).worth

\* C37: prices are bounded above.  From a fresh market with non-negative
\* reserve prices and epsilon > 0, in every reachable state the price of each
\* slot is at most the larger of its reserve price and the largest worth
\* among the agents, and immediately after an agent newly bids on a slot the
\* price of that slot is strictly less than the worth of that agent.
C37_PricesBoundedAbove ==
    (NonNegativeInputs /\ scen.epsilon > 0) =>
        /\ \A j \in DOMAIN scen.slots :
              \/ Current.bid_prices[scen.slots[j].slot_id] <= scen.slots[j].reserve_price
              \/ Current.bid_prices[scen.slots[j].slot_id] <= LargestWorth
        /\ NewBidsBelowWorth

\* a round that takes a slot from another agent at a new price one epsilon
\* short of the bidder's worth
C37_Witness ==
    /\ rounds # <<>>
    /\ Evicted(Len(rounds))
    /\ \E j \in DOMAIN scen.slots :
          /\ scen.slots[j].slot_id \in LastRound.slots_bid_on
          /\ fadd(PriceAfterEntry(Len(rounds), j), scen.epsilon)
                = AgentById(LastRound.bidder).worth

-----------------------------------------------------------------------------
(* Converged results are fixed points.                                     *)

\* auction.run(result.market): the run on the copy of the returned market
RunOnResult ==
    LET c == copy(heap, result.market)
    IN  Rerun(c[1][c[2]], <<>>, 0, 1, FALSE)

-----------------------------------------------------------------------------
(* No bundle at surplus zero.                                              *)

\* the bundle of the latest bidder before its round
HeldBefore == Range(LastRound.allocations[LastRound.bidder])

\* best_bundle of the latest round: the bundle the bidder has after it
BestBundleOfLastRound == Current.allocations[LastRound.bidder]

\* the greatest surplus over the feasible windows of the latest bidder, at
\* the ask prices of its round, is exactly 0
GreatestSurplusIsZero ==
    LET agent == AgentById(LastRound.bidder)
        ask_prices == AskPricesOf(LastRound)
    IN  /\ \A W \in FeasibleWindows(agent) : surplus(agent, W, ask_prices) <= 0
        /\ \E W \in FeasibleWindows(agent) : surplus(agent, W, ask_prices) = 0

\* C39: a non-empty bundle returned by find_best_bundle has strictly positive
\* surplus at the given prices.  When the greatest surplus over all feasible
\* windows is exactly 0 the optimiser returns the empty bundle, so in the
\* auction an agent holding slots of a window whose surplus at its ask prices
\* has dropped to exactly 0 releases them.
C39_NoBundleAtZeroSurplus ==
    rounds # <<>> =>
        LET agent == AgentById(LastRound.bidder)
            ask_prices == AskPricesOf(LastRound)
            found == find_best_bundle(agent, scen.slots, ask_prices, HeldBefore)
        IN  /\ found[1] = BestBundleOfLastRound
            /\ found[1] # {} =>
                  /\ found[2] > 0
                  /\ surplus(agent, found[1], ask_prices) > 0
            /\ GreatestSurplusIsZero =>
                  /\ found[1] = {}
                  /\ BestBundleOfLastRound = {}
                  /\ LastRound.slots_bid_on = {}

\* a round of an agent that held a slot, found its best window at surplus
\* exactly 0 and released what it held
C39_Witness ==
    /\ rounds # <<>>
    /\ HeldBefore # {}
    /\ GreatestSurplusIsZero
    /\ BestBundleOfLastRound = {}

====
